---------------------------- MODULE Spec2Model ----------------------------
(***************************************************************************)
(* Workshop app: validation helpers, the debounce wrapper, the persistence *)
(* adapter (FirebaseService) and the facilitator / participant controllers *)
(* over the hosted realtime store.                                         *)
(*                                                                         *)
(* Strings are sequences of one-character strings.  JavaScript values that *)
(* are not strings (null, undefined, booleans, a thrown exception) are     *)
(* written as the TLA+ strings "null", "undefined", "true", "false",       *)
(* "throw" wherever one operation can produce values of several types.     *)
(***************************************************************************)
EXTENDS Integers, Sequences, FiniteSets, TLC

VARIABLES
    \* --- validation helpers (SpecValidate)
    vpc,        \* "input" | "validated" | "revalidated"
    vinput,     \* the text typed into the form field
    vname,      \* validateParticipantName(vinput)
    vcode,      \* validateRoomCode(vinput)
    vname2,     \* validateParticipantName applied to vname
    vcode2,     \* validateRoomCode applied to vcode
    \* --- the debounce wrapper in time (SpecDebounce)
    now,        \* the clock, in milliseconds
    timers,     \* the pending setTimeout callbacks
    timeout,    \* debounce's closure variable: the id of the last timer set
    calls,      \* history: the calls made to the debounced function
    setCalls,   \* history: the store writes the wrapped function issued
    \* --- the hosted store and the persistence adapter
    database,       \* firebase.js `database`: "null" before init, then "db"
    sessions,       \* sessions/{code}: the session fields
    participants,   \* sessions/{code}/participants/{id}
    transcripts,    \* transcripts/{code}/{autoId}, in push order
    themes,         \* themes/{code}/table{n}
    lastCall,       \* the adapter call made last, with what it returned
    adapterCalls,   \* the number of adapter calls made (SpecAdapter)
    \* --- the controllers (Spec)
    inputs,     \* the number of inputs the users have made
    nextId,     \* the next participant id generateParticipantId gives
    fac,        \* the facilitator page: its module variables and position
    part,       \* each participant page: its module variables and position
    gen,        \* the facilitator's handleGenerateThemes: its position and outcome
    \* --- the adapter's listeners (SpecListen)
    subscriptions,  \* every listenToSession / listenToParticipants call made
    \* --- the pages' start (SpecStartup)
    startup,    \* CONFIG.FIREBASE, and what FirebaseService.init returned
    \* --- the join form (SpecJoinForm)
    form,       \* the texts of its two fields, and what handleJoinSubmit passed on
    \* --- the serverless proxies (SpecProxy)
    proxy,      \* one invocation of a proxy handler: its request and position
    \* --- the participant's browser (SpecPresence, SpecRejoin, SpecRecord)
    connection,     \* the client's link to the store, and the presence hooks
    localStorage,   \* window.localStorage of each browser: key -> value
    dataTheme,      \* each browser: prefers-color-scheme, and the page's
                    \* data-theme attribute
    recorder,       \* one recording: recognition, MediaRecorder and transcript
    \* --- Utils.retry (SpecRetry)
    retry       \* one call of Utils.retry: its attempts and waits

valVars == <<vpc, vinput, vname, vcode, vname2, vcode2>>

debVars == <<now, timers, timeout, calls, setCalls>>

storeVars == <<database, sessions, participants, transcripts, themes>>

pageVars == <<connection, localStorage, dataTheme, recorder, retry>>

ctlVars == <<inputs, nextId, fac, part, gen, subscriptions,
                startup, form, proxy, pageVars>>

vars == <<valVars, debVars, storeVars, lastCall, adapterCalls, ctlVars>>

\* What each specification leaves alone.
notValVars == <<debVars, storeVars, lastCall, adapterCalls, ctlVars>>

notDebVars == <<valVars, storeVars, lastCall, adapterCalls, ctlVars>>

-----------------------------------------------------------------------------
(* CONFIG.APP *)

SESSION_CODE_LENGTH == 6
MAX_NAME_LENGTH == 50
MIN_NAME_LENGTH == 2

-----------------------------------------------------------------------------
(* Strings *)

\* The characters the model types: a lowercase letter, an uppercase letter,
\* a space, an HTML bracket and a hyphen.
Alphabet == {"a", "A", " ", "<", "-"}

\* Longest free-form text on each side of the repeated run of an input.
MaxEdge == 2

\* The JavaScript null a validator returns on rejection.  No string of the
\* model equals it: every element of a string is a single character.
Null == <<"null">>

RECURSIVE Repeat(_, _)
Repeat(c, n) ==
    IF n <= 0 THEN <<>> ELSE <<c>> \o Repeat(c, n - 1)

RECURSIVE StringsUpTo(_)
StringsUpTo(n) ==
    IF n = 0 THEN {<<>>}
    ELSE LET shorter == StringsUpTo(n - 1)
         IN shorter \cup {Append(s, c) : s \in shorter, c \in Alphabet}

IsWhitespace(c) == c = " "

\* String.prototype.trim
RECURSIVE TrimStart(_)
TrimStart(s) ==
    IF s # <<>> /\ IsWhitespace(Head(s)) THEN TrimStart(Tail(s)) ELSE s

RECURSIVE TrimEnd(_)
TrimEnd(s) ==
    IF s # <<>> /\ IsWhitespace(s[Len(s)])
    THEN TrimEnd(SubSeq(s, 1, Len(s) - 1))
    ELSE s

Trim(s) == TrimEnd(TrimStart(s))

\* String.prototype.toUpperCase
UpperChar(c) == IF c = "a" THEN "A" ELSE c

ToUpperCase(s) == [i \in 1..Len(s) |-> UpperChar(s[i])]

\* String.prototype.substring(0, n)
Substring0(s, n) == SubSeq(s, 1, IF Len(s) < n THEN Len(s) ELSE n)

\* replace(/[^A-Z0-9]/g, '') keeps
IsCodeChar(c) == c \in {"A", "1"}

\* replace(/[<>]/g, '') keeps
NotAngle(c) == c \notin {"<", ">"}

\* replace(/[^\w\s\-']/g, '') keeps
IsNameChar(c) == c \in {"a", "A", "1", "_", " ", "-", "'"}

-----------------------------------------------------------------------------
(* Utils.validateRoomCode / Utils.validateParticipantName *)

validateRoomCode(code) ==
    IF code = <<>> THEN Null
    ELSE LET sanitized == SelectSeq(ToUpperCase(Trim(code)), IsCodeChar)
         IN IF Len(sanitized) # SESSION_CODE_LENGTH THEN Null ELSE sanitized

validateParticipantName(name) ==
    IF name = <<>> THEN Null
    ELSE LET sanitized == Substring0(Trim(name), MAX_NAME_LENGTH)
         IN IF Len(sanitized) < MIN_NAME_LENGTH THEN Null
            ELSE SelectSeq(SelectSeq(sanitized, NotAngle), IsNameChar)

-----------------------------------------------------------------------------
(* The hosted realtime store: the paths sessions/{code},
   sessions/{code}/participants/{id}, transcripts/{code}/{autoId} and
   themes/{code}/table{n}. *)

\* Session codes Utils.generateRoomCode can draw, participant ids
\* Utils.generateParticipantId can draw, and table numbers.
Codes == {"ABC234", "XYZ789"}

\* Participant ids generated in one run.
MaxIds == 2

Pids == 1..MaxIds

Tables == {1, 2}

\* The phase selector offers the phases 0..MaxPhase.
MaxPhase == 1

Phases == 0..MaxPhase

\* Transcripts pushed under one session code in one run.
MaxTranscripts == 2

\* A path with no data.  A field that was never written reads as undefined:
\* status "undefined"; an unwritten phase or timer reads as 0 / false / 0,
\* the defaults the controllers substitute (session.phase || 0).
NoSession ==
    [exists |-> FALSE, facilitatorId |-> "undefined", phase |-> 0,
     timerActive |-> FALSE, timerDuration |-> 0, status |-> "undefined"]

NoParticipant == [exists |-> FALSE, status |-> "undefined"]

NoThemes == [exists |-> FALSE, themes |-> "undefined"]

StoreEmpty ==
    /\ sessions = [c \in Codes |-> NoSession]
    /\ participants = [c \in Codes |-> [p \in Pids |-> NoParticipant]]
    /\ transcripts = [c \in Codes |-> <<>>]
    /\ themes = [c \in Codes |-> [n \in Tables |-> NoThemes]]

\* snapshot.exists() at sessions/{code}: the node has data when a session
\* field or a participant below it has been written.
SnapshotExists(code) ==
    \/ sessions[code].exists
    \/ \E p \in Pids : participants[code][p].exists

-----------------------------------------------------------------------------
(* FirebaseService: what each operation returns and writes.  `accept` is
   the store's answer to the write: TRUE when it takes it, FALSE when the
   promise of set()/update() rejects. *)

\* database.ref(path).set(...) awaited inside try: "ok", or an exception
\* (a TypeError when `database` is still null, a rejected promise otherwise).
AwaitSet(accept) ==
    IF database = "null" THEN "throw"
    ELSE IF accept THEN "ok" ELSE "throw"

\* try { await ...; return true } catch { return false }, without the catch
ReturnTrueUncaught(raw) == IF raw = "ok" THEN "true" ELSE "throw"

\* try { await ...; return true } catch (error) { ...; return false }
ReturnTrueOrFalse(raw) == IF raw = "ok" THEN "true" ELSE "false"

\* push() that gives the same key every time
PushKeyFixed(n) == "key1"

\* push().key of the n-th transcript pushed under a code
PushKey(n) == "key" \o ToString(n)

\* createSession without its try/catch: the exception reaches the caller.
createSessionRetUncaught(accept) == ReturnTrueUncaught(AwaitSet(accept))

\* createSession: set() replaces the whole node sessions/{code}, the
\* participants below it included.
createSessionRet(accept) == ReturnTrueOrFalse(AwaitSet(accept))

createSessionData(facilitatorId) ==
    [exists |-> TRUE, facilitatorId |-> facilitatorId, phase |-> 0,
     timerActive |-> FALSE, timerDuration |-> 0, status |-> "active"]

\* sessionExists: once('value') then snapshot.exists(); false on any error.
sessionExists(code, readOk) ==
    IF database = "null" \/ ~readOk THEN FALSE ELSE SnapshotExists(code)

\* joinSession: false without a write when the session does not exist.
joinSessionRet(exists, accept) ==
    IF ~exists THEN "false" ELSE ReturnTrueOrFalse(AwaitSet(accept))

joinSessionWrites(exists, accept) == exists /\ AwaitSet(accept) = "ok"

participantData == [exists |-> TRUE, status |-> "online"]

\* updateParticipantStatus is Utils.debounce(...): the wrapper returns
\* nothing, and the wrapped function writes later, logging a failure.
updateParticipantStatusRet == "undefined"

\* saveTranscript returns newRef.key, or null from its catch.
saveTranscriptRet(code, accept) ==
    IF AwaitSet(accept) = "ok"
    THEN PushKey(Len(transcripts[code]) + 1)
    ELSE "null"

saveThemesRet(accept) == ReturnTrueOrFalse(AwaitSet(accept))

updatePhaseRet(accept) == ReturnTrueOrFalse(AwaitSet(accept))

updateTimerRet(accept) == ReturnTrueOrFalse(AwaitSet(accept))

\* endSession that does not wait for the store's answer
endSessionRetUnawaited(accept) == "true"

endSessionRet(accept) == ReturnTrueOrFalse(AwaitSet(accept))

\* The store after each accepted write.
SessionsAfterCreate(code, facilitatorId) ==
    [sessions EXCEPT ![code] = createSessionData(facilitatorId)]

ParticipantsAfterCreate(code) ==
    [participants EXCEPT ![code] = [p \in Pids |-> NoParticipant]]

ParticipantsAfterJoin(code, pid) ==
    [participants EXCEPT ![code][pid] = participantData]

ParticipantsAfterStatus(code, pid, status) ==
    [participants EXCEPT ![code][pid] = [exists |-> TRUE, status |-> status]]

TranscriptsAfterSave(code, tableNumber, phaseIndex) ==
    [transcripts EXCEPT ![code] =
        Append(@, [key |-> PushKey(Len(@) + 1), tableNumber |-> tableNumber,
                   phaseIndex |-> phaseIndex])]

ThemesAfterSave(code, tableNumber, th) ==
    [themes EXCEPT ![code][tableNumber] = [exists |-> TRUE, themes |-> th]]

SessionsAfterPhase(code, phaseIndex) ==
    [sessions EXCEPT ![code].exists = TRUE, ![code].phase = phaseIndex]

TimerWritten(s, code, active, duration) ==
    [s EXCEPT ![code].exists = TRUE, ![code].timerActive = active,
              ![code].timerDuration = duration]

SessionsAfterTimer(code, active, duration) ==
    TimerWritten(sessions, code, active, duration)

SessionsAfterEnd(code) ==
    [sessions EXCEPT ![code].exists = TRUE, ![code].status = "ended"]

-----------------------------------------------------------------------------
(* The parts of the state a specification does not use stay as they are
   here. *)

ValIdle ==
    /\ vpc = "input"
    /\ vinput = <<>>
    /\ vname = Null
    /\ vcode = Null
    /\ vname2 = Null
    /\ vcode2 = Null

NoCall == [op |-> "none", code |-> "", ret |-> "undefined", wrote |-> FALSE]

\* Participant pages.
Clients == {"p1"}

\* Inputs the users make in one run: form submits, button clicks and
\* changes of the phase selector.
MaxInputs == 3

\* sessionData before the first notification (null).
NoData == [set |-> FALSE, code |-> "", val |-> NoSession]

\* presenceCleanup before setupPresence (null).
NoPresence == [set |-> FALSE, code |-> "", pid |-> 0]

\* No pending timer of the debounced status write.
NoStatusTimer == [pending |-> FALSE, code |-> "", pid |-> 0, status |-> ""]

\* The codes generateRoomCode gives the facilitator page.
RoomCodes == {"ABC234"}

\* What a handler of the facilitator page got back from the adapter for
\* its store write, and the notifications it and the adapter showed.
Notice(ret, toasts) == [ret |-> ret, toasts |-> toasts]

\* The facilitator page after it has loaded (create screen).
FacLoaded ==
    [screen |-> "create", pc |-> "idle", code |-> "", sessionData |-> NoData,
     currentPhase |-> 0, timerInterval |-> FALSE, activeListeners |-> <<>>,
     notice |-> Notice("none", {}),
     participants |-> [p \in Pids |-> NoParticipant]]

\* A participant page after it has loaded (join screen).
PartLoaded ==
    [screen |-> "join", pc |-> "idle", code |-> "", participantId |-> 0,
     sessionData |-> NoData, presenceCleanup |-> NoPresence,
     activeListeners |-> <<>>, leaveTimers |-> 0,
     statusTimer |-> NoStatusTimer, toasts |-> {}]

\* handleGenerateThemes has not run.
GenIdle ==
    [pc |-> "idle", runs |-> 0, code |-> "", phase |-> 0, tables |-> <<>>,
     themes |-> "", toast |-> "", proxyCalls |-> 0, themeWrites |-> 0,
     found |-> <<>>, answer |-> "none", failed |-> FALSE, open |-> 0]

\* The two pages, each with its own FirebaseService.
Pages == {"facilitator", "participant"}

FirebaseKeys == {"apiKey", "databaseURL"}

\* A value of CONFIG.FIREBASE with every placeholder replaced.
ResolvedValue == <<"k">>

\* init() has not run on either page.
StartupIdle ==
    [config |-> [k \in FirebaseKeys |-> ResolvedValue],
     ret |-> [pg \in Pages |-> "none"],
     error |-> [pg \in Pages |-> FALSE],
     inits |-> 0, tested |-> FALSE]

\* No proxy handler has been invoked.
ProxyIdle ==
    [req |-> [kind |-> "none", httpMethod |-> "", key |-> <<>>, body |-> "",
              contentType |-> ""],
     pc |-> "none", timer |-> 0, upstream |-> 0, responses |-> <<>>,
     failure |-> "none", ok |-> FALSE]

\* The join form with nothing typed and nothing submitted.
FormIdle ==
    [name |-> <<>>, code |-> <<>>, submitted |-> FALSE,
     sentName |-> Null, sentCode |-> Null]

\* The browsers: the facilitator's, and one for each participant page.
Browsers == {"facilitator"} \cup Clients

\* The keys the pages keep in window.localStorage.
StorageKeys ==
    {"theme", "workshop_code", "participant_name", "participant_id",
     "facilitator_code", "facilitator_id", "facilitator_name"}

\* localStorage with nothing stored: getItem gives null for every key.
StorageEmpty == [b \in Browsers |-> [k \in StorageKeys |-> "null"]]

\* A browser that prefers the light scheme, after initTheme() of its page.
ThemeIdle == [b \in Browsers |-> [prefersDark |-> FALSE, attr |-> "light"]]

\* localStorage after the first load of a page in each browser: initTheme()
\* has stored the theme it set.
StorageLoaded ==
    [b \in Browsers |->
        [k \in StorageKeys |-> IF k = "theme" THEN ThemeIdle[b].attr
                               ELSE "null"]]

\* The link of a participant page to the store after the page has loaded:
\* connected, no `.info/connected` callback and no onDisconnect() hook yet;
\* `firing' holds the callbacks that are due after a reconnect.  History:
\* `joined' and `left' are the participant ids the page has joined since
\* its last leave and those it has left, and `refused' tells that the store
\* has refused a status write of the page, and `losses' counts the times
\* the link was lost.
ConnectionIdle ==
    [cl \in Clients |->
        [link |-> "up", listeners |-> {}, firing |-> {}, hooks |-> {},
         joined |-> {}, left |-> {}, refused |-> FALSE, losses |-> 0]]

\* No recording has been started: isRecording, whether the browser has
\* SpeechRecognition, the recordings made, and the error shown last.
RecorderIdle ==
    [cl \in Clients |->
        [isRecording |-> FALSE, supported |-> TRUE, recordings |-> <<>>,
         toast |-> "", waiting |-> 0]]

\* Utils.retry has not been called.
RetryIdle ==
    [pc |-> "idle", maxAttempts |-> 0, delay |-> 0, attempt |-> 0,
     log |-> <<>>, waits |-> <<>>, ret |-> "undefined"]

\* The browser state the other specifications leave alone.
PageIdle ==
    /\ connection = ConnectionIdle
    /\ localStorage = StorageLoaded
    /\ dataTheme = ThemeIdle
    /\ recorder = RecorderIdle
    /\ retry = RetryIdle

CtlIdle ==
    /\ PageIdle
    /\ gen = GenIdle
    /\ inputs = 0
    /\ nextId = 1
    /\ fac = FacLoaded
    /\ part = [cl \in Clients |-> PartLoaded]
    /\ subscriptions = <<>>
    /\ startup = StartupIdle
    /\ form = FormIdle
    /\ proxy = ProxyIdle

DebIdle ==
    /\ now = 0
    /\ timers = {}
    /\ timeout = 0
    /\ calls = <<>>
    /\ setCalls = <<>>

-----------------------------------------------------------------------------
(* SpecValidate: the validators applied to a form input, then to their own
   results. *)

RunLens ==
    {0, SESSION_CODE_LENGTH - MaxEdge, SESSION_CODE_LENGTH,
     MAX_NAME_LENGTH - MaxEdge, MAX_NAME_LENGTH, MAX_NAME_LENGTH + 1}

Inputs ==
    {pre \o Repeat(c, n) \o suf :
        pre \in StringsUpTo(MaxEdge), suf \in StringsUpTo(MaxEdge),
        c \in {"a", "<"}, n \in RunLens}

ValInit ==
    /\ vpc = "input"
    /\ vinput \in Inputs
    /\ vname = Null
    /\ vcode = Null
    /\ vname2 = Null
    /\ vcode2 = Null
    /\ DebIdle
    /\ StoreEmpty
    /\ database = "db"
    /\ lastCall = NoCall
    /\ adapterCalls = 0
    /\ CtlIdle

Validate ==
    /\ vpc = "input"
    /\ vname' = validateParticipantName(vinput)
    /\ vcode' = validateRoomCode(vinput)
    /\ vpc' = "validated"
    /\ UNCHANGED <<vinput, vname2, vcode2>>
    /\ UNCHANGED notValVars

Revalidate ==
    /\ vpc = "validated"
    /\ vname2' = IF vname = Null THEN Null ELSE validateParticipantName(vname)
    /\ vcode2' = IF vcode = Null THEN Null ELSE validateRoomCode(vcode)
    /\ vpc' = "revalidated"
    /\ UNCHANGED <<vinput, vname, vcode>>
    /\ UNCHANGED notValVars

ValNext ==
    \/ Validate
    \/ Revalidate

SpecValidate == ValInit /\ [][ValNext]_vars

\* The characters of the input a validator keeps: its valid content.
NameContent(s) == SelectSeq(SelectSeq(Trim(s), NotAngle), IsNameChar)

CodeContent(s) == SelectSeq(ToUpperCase(Trim(s)), IsCodeChar)

\* C6 (as claimed): the validators are idempotent: a result v a validator
\* accepts is accepted again by the same validator, and returned unchanged.
ValidatorsIdempotent ==
    vpc = "revalidated" =>
        /\ vname # Null => vname2 = vname
        /\ vcode # Null => vcode2 = vcode

\* C7 (as claimed): an accepted name has MIN_NAME_LENGTH..MAX_NAME_LENGTH
\* characters, none disallowed; an accepted code has SESSION_CODE_LENGTH
\* characters, all in A-Z0-9; an input whose valid content is outside these
\* lengths is rejected with null.
ValidatedInRange ==
    vpc # "input" =>
        /\ vname # Null =>
            /\ Len(vname) >= MIN_NAME_LENGTH
            /\ Len(vname) <= MAX_NAME_LENGTH
            /\ \A i \in 1..Len(vname) : IsNameChar(vname[i])
        /\ vcode # Null =>
            /\ Len(vcode) = SESSION_CODE_LENGTH
            /\ \A i \in 1..Len(vcode) : IsCodeChar(vcode[i])
        /\ Len(NameContent(vinput)) \notin MIN_NAME_LENGTH..MAX_NAME_LENGTH
            => vname = Null
        /\ Len(CodeContent(vinput)) # SESSION_CODE_LENGTH => vcode = Null

-----------------------------------------------------------------------------
(* Utils.debounce(func, wait), wrapped around the status write of
   FirebaseService.updateParticipantStatus, with the browser's timers. *)

\* The wait of updateParticipantStatus, in milliseconds.
STATUS_DEBOUNCE_WAIT == 500

\* Calls made to the debounced function in one run.
MaxCalls == 3

\* The clock advances by at most TimeStep, up to MaxTime.
TimeStep == 250
MaxTime == 1500

Statuses == {"online", "offline"}

\* clearTimeout(id): an id that is not pending (undefined, fired) is ignored.
clearTimeoutIgnored(ts, id) == ts

clearTimeout(ts, id) == {t \in ts : t.id # id}

\* setTimeout(later, wait), later closing over args; the id is the number of
\* the call that set it.
setTimeout(ts, id, wait, args) ==
    ts \cup {[id |-> id, deadline |-> now + wait, args |-> args]}

\* executedFunction(...args)
DebouncedCall(args) ==
    /\ Len(calls) < MaxCalls
    /\ LET id == Len(calls) + 1
       IN /\ timers' = setTimeout(clearTimeout(timers, timeout), id,
                                  STATUS_DEBOUNCE_WAIT, args)
          /\ timeout' = id
    /\ calls' = Append(calls, [t |-> now, args |-> args])
    /\ UNCHANGED <<now, setCalls>>

\* later(): clearTimeout(timeout); func.apply(this, args), and func issues
\* database.ref(.../status).set(status)
DebounceLater(t) ==
    /\ t \in timers
    /\ t.deadline <= now
    /\ timers' = clearTimeout(timers \ {t}, timeout)
    /\ setCalls' = Append(setCalls, [t |-> now, args |-> t.args, call |-> t.id])
    /\ UNCHANGED <<now, timeout, calls>>

Min(a, b) == IF a < b THEN a ELSE b

\* Time passes; a timer that is due runs before the clock moves on.
Tick ==
    /\ now < MaxTime
    /\ \A t \in timers : t.deadline > now
    /\ LET next == Min(now + TimeStep, MaxTime)
           due == {t.deadline : t \in timers}
       IN now' = IF \E d \in due : d < next
                 THEN CHOOSE d \in due : \A e \in due : d <= e
                 ELSE next
    /\ UNCHANGED <<timers, timeout, calls, setCalls>>

DebNext ==
    \/ \E status \in Statuses :
        DebouncedCall(status) /\ UNCHANGED notDebVars
    \/ \E t \in timers :
        DebounceLater(t) /\ UNCHANGED notDebVars
    \/ Tick /\ UNCHANGED notDebVars

DebInit ==
    /\ ValIdle
    /\ DebIdle
    /\ StoreEmpty
    /\ database = "db"
    /\ lastCall = NoCall
    /\ adapterCalls = 0
    /\ CtlIdle

SpecDebounce == DebInit /\ [][DebNext]_vars

Gap(i) == calls[i + 1].t - calls[i].t

\* The writes issued by the timer that call i set.
WritesOf(i) == {k \in 1..Len(setCalls) : setCalls[k].call = i}

\* Call i was followed by another call less than the wait later.
Superseded(i) == i < Len(calls) /\ Gap(i) < STATUS_DEBOUNCE_WAIT

\* More than the wait has passed after call i with no other call.
Settled(i) ==
    \/ i < Len(calls) /\ Gap(i) > STATUS_DEBOUNCE_WAIT
    \/ i = Len(calls) /\ now > calls[i].t + STATUS_DEBOUNCE_WAIT

OneBurst == \A i \in 1..(Len(calls) - 1) : Superseded(i)

\* C4: N >= 1 calls of updateParticipantStatus with less than 500 ms between
\* consecutive calls issue exactly one store write, after the last call and
\* with the last call's arguments; every call that another call follows
\* within the wait issues no write.
DebounceOneWrite ==
    /\ \A i \in 1..Len(calls) :
        /\ Cardinality(WritesOf(i)) <= 1
        /\ Superseded(i) => WritesOf(i) = {}
        /\ Settled(i) => Cardinality(WritesOf(i)) = 1
        /\ \A k \in WritesOf(i) :
            /\ setCalls[k].args = calls[i].args
            /\ setCalls[k].t >= calls[i].t + STATUS_DEBOUNCE_WAIT
    /\ (calls # <<>> /\ OneBurst) =>
        /\ Len(setCalls) <= 1
        /\ now > calls[Len(calls)].t + STATUS_DEBOUNCE_WAIT => Len(setCalls) = 1
        /\ \A k \in 1..Len(setCalls) :
            /\ setCalls[k].args = calls[Len(calls)].args
            /\ setCalls[k].t >= calls[Len(calls)].t

\* A burst of three calls, the last with other arguments than the first, has
\* issued its one write.
DebounceBurstWritten ==
    /\ Len(calls) = 3
    /\ OneBurst
    /\ calls[1].args # calls[3].args
    /\ calls[1].t < calls[3].t
    /\ Len(setCalls) = 1

-----------------------------------------------------------------------------
(* SpecAdapter: the operations of FirebaseService called one after another
   by any caller, each with the store's answer.  lastCall keeps the last
   call: its operation, its session code, what it returned to the caller
   and whether the store took a write of it before it returned. *)

\* Adapter calls in one run.
MaxAdapterCalls == 2

FacilitatorIds == {"facilitator_1"}

\* The start-timer button: startTimer(5 * 60)
TIMER_SECONDS == 300

ThemeLists == {"themes_a", "themes_b"}

Called(op, code, ret, wrote) ==
    lastCall' = [op |-> op, code |-> code, ret |-> ret, wrote |-> wrote]

\* init(): firebase.initializeApp and firebase.database()
FirebaseInit ==
    /\ database = "null"
    /\ database' = "db"
    /\ UNCHANGED <<sessions, participants, transcripts, themes, lastCall>>

CallCreateSession(code, facilitatorId, accept) ==
    LET wrote == AwaitSet(accept) = "ok"
    IN /\ sessions' = IF wrote THEN SessionsAfterCreate(code, facilitatorId)
                      ELSE sessions
       /\ participants' = IF wrote THEN ParticipantsAfterCreate(code)
                          ELSE participants
       /\ Called("createSession", code, createSessionRet(accept), wrote)
       /\ UNCHANGED <<database, transcripts, themes>>

CallJoinSession(code, pid, readOk, accept) ==
    LET exists == sessionExists(code, readOk)
        wrote == joinSessionWrites(exists, accept)
    IN /\ participants' = IF wrote THEN ParticipantsAfterJoin(code, pid)
                          ELSE participants
       /\ Called("joinSession", code, joinSessionRet(exists, accept), wrote)
       /\ UNCHANGED <<database, sessions, transcripts, themes>>

\* The debounced wrapper only sets a timer: nothing is written when it
\* returns.
CallUpdateParticipantStatus(code) ==
    /\ Called("updateParticipantStatus", code, updateParticipantStatusRet,
              FALSE)
    /\ UNCHANGED storeVars

CallSaveTranscript(code, tableNumber, phaseIndex, accept) ==
    LET wrote == AwaitSet(accept) = "ok"
    IN /\ Len(transcripts[code]) < MaxTranscripts
       /\ transcripts' =
            IF wrote THEN TranscriptsAfterSave(code, tableNumber, phaseIndex)
            ELSE transcripts
       /\ Called("saveTranscript", code, saveTranscriptRet(code, accept),
                 wrote)
       /\ UNCHANGED <<database, sessions, participants, themes>>

CallSaveThemes(code, tableNumber, th, accept) ==
    LET wrote == AwaitSet(accept) = "ok"
    IN /\ themes' = IF wrote THEN ThemesAfterSave(code, tableNumber, th)
                    ELSE themes
       /\ Called("saveThemes", code, saveThemesRet(accept), wrote)
       /\ UNCHANGED <<database, sessions, participants, transcripts>>

CallUpdatePhase(code, phaseIndex, accept) ==
    LET wrote == AwaitSet(accept) = "ok"
    IN /\ sessions' = IF wrote THEN SessionsAfterPhase(code, phaseIndex)
                      ELSE sessions
       /\ Called("updatePhase", code, updatePhaseRet(accept), wrote)
       /\ UNCHANGED <<database, participants, transcripts, themes>>

CallUpdateTimer(code, active, duration, accept) ==
    LET wrote == AwaitSet(accept) = "ok"
    IN /\ sessions' = IF wrote THEN SessionsAfterTimer(code, active, duration)
                      ELSE sessions
       /\ Called("updateTimer", code, updateTimerRet(accept), wrote)
       /\ UNCHANGED <<database, participants, transcripts, themes>>

CallEndSession(code, accept) ==
    LET wrote == AwaitSet(accept) = "ok"
    IN /\ sessions' = IF wrote THEN SessionsAfterEnd(code) ELSE sessions
       /\ Called("endSession", code, endSessionRet(accept), wrote)
       /\ UNCHANGED <<database, participants, transcripts, themes>>

\* One more adapter call is made.
Counted ==
    /\ adapterCalls < MaxAdapterCalls
    /\ adapterCalls' = adapterCalls + 1
    /\ UNCHANGED <<valVars, debVars, ctlVars>>

AdapterNext ==
    \/ FirebaseInit /\ UNCHANGED <<valVars, debVars, adapterCalls, ctlVars>>
    \/ \E code \in Codes, f \in FacilitatorIds, accept \in BOOLEAN :
        CallCreateSession(code, f, accept) /\ Counted
    \/ \E code \in Codes, pid \in Pids, readOk \in BOOLEAN, accept \in BOOLEAN :
        CallJoinSession(code, pid, readOk, accept) /\ Counted
    \/ \E code \in Codes : CallUpdateParticipantStatus(code) /\ Counted
    \/ \E code \in Codes, n \in Tables, ph \in Phases, accept \in BOOLEAN :
        CallSaveTranscript(code, n, ph, accept) /\ Counted
    \/ \E code \in Codes, n \in Tables, th \in ThemeLists, accept \in BOOLEAN :
        CallSaveThemes(code, n, th, accept) /\ Counted
    \/ \E code \in Codes, ph \in Phases, accept \in BOOLEAN :
        CallUpdatePhase(code, ph, accept) /\ Counted
    \/ \E code \in Codes, active \in BOOLEAN, accept \in BOOLEAN :
        CallUpdateTimer(code, active, IF active THEN TIMER_SECONDS ELSE 0,
                        accept) /\ Counted
    \/ \E code \in Codes, accept \in BOOLEAN :
        CallEndSession(code, accept) /\ Counted

AdapterInit ==
    /\ ValIdle
    /\ DebIdle
    /\ StoreEmpty
    /\ database = "null"
    /\ lastCall = NoCall
    /\ adapterCalls = 0
    /\ CtlIdle

SpecAdapter == AdapterInit /\ [][AdapterNext]_vars

\* C9: createSession never throws to its caller; it returns false when the
\* store write rejects or the store was never initialised, and true only
\* when the session record was written.
CreateSessionReturnsFlag ==
    lastCall.op = "createSession" =>
        /\ lastCall.ret \in {"true", "false"}
        /\ ~lastCall.wrote => lastCall.ret = "false"
        /\ lastCall.ret = "true" =>
            /\ lastCall.wrote
            /\ \E f \in FacilitatorIds :
                sessions[lastCall.code] = createSessionData(f)

\* createSession has returned false for a write the initialised store
\* rejected, after an earlier call.
CreateSessionRejected ==
    /\ lastCall.op = "createSession"
    /\ lastCall.ret = "false"
    /\ database = "db"
    /\ adapterCalls = 2

BooleanOps ==
    {"createSession", "joinSession", "saveThemes", "updatePhase",
     "updateTimer", "endSession"}

\* C10 (as claimed): every write operation returns a boolean, true exactly
\* when the store accepted the write, and never throws.
EveryWriteReturnsBoolean ==
    lastCall.op # "none" =>
        /\ lastCall.ret \in {"true", "false"}
        /\ lastCall.ret = "true" <=> lastCall.wrote

\* C10 (amended): createSession, joinSession, saveThemes, updatePhase,
\* updateTimer and endSession return true exactly when the store accepted
\* the write and false otherwise; saveTranscript returns the key of the new
\* record when the store accepted the write and null otherwise;
\* updateParticipantStatus returns undefined before any write is made; none
\* of them throws.
WriteResults ==
    /\ lastCall.ret # "throw"
    /\ lastCall.op \in BooleanOps =>
        /\ lastCall.ret \in {"true", "false"}
        /\ lastCall.ret = "true" <=> lastCall.wrote
    /\ lastCall.op = "saveTranscript" =>
        /\ ~lastCall.wrote => lastCall.ret = "null"
        /\ lastCall.wrote =>
            LET saved == transcripts[lastCall.code]
            IN /\ saved # <<>>
               /\ lastCall.ret = saved[Len(saved)].key
               /\ lastCall.ret \notin {"null", "true", "false", "undefined"}
    /\ lastCall.op = "updateParticipantStatus" =>
        /\ lastCall.ret = "undefined"
        /\ ~lastCall.wrote

\* saveTranscript has returned the key of the second transcript of a code.
TranscriptKeyReturned ==
    /\ lastCall.op = "saveTranscript"
    /\ lastCall.wrote
    /\ Len(transcripts[lastCall.code]) = 2

-----------------------------------------------------------------------------
(* Spec: the facilitator page and the participant pages over one store.
   An async handler is one action up to each await that talks to the
   store or to the video conference, and one action for what follows it.
   Every session listener has the queue of the snapshots the store has
   reported to it and it has not yet handled; `seen` is the phase of the
   snapshot it handled last, `changed` records that it has handled a
   snapshot with another phase than the one before, and `repeated` that it
   has handled two snapshots in a row with the same phase.  A snapshot is
   the session's own fields; the store is initialised; the run has one
   participant page, and every page gets its notifications some time after
   the write, its own writes included. *)

\* A value listener that only hears of the participants below the node
ListenerFiresOnMembers(code, s1, p1, s2, p2) == p2[code] # p1[code]

\* ref.on('value') at sessions/{code} fires when the data at or below the
\* node changes: the session's fields or a participant below it.
ListenerFires(code, s1, p1, s2, p2) ==
    s2[code] # s1[code] \/ p2[code] # p1[code]

\* The snapshots the store reports for a write by `op` that took the node
\* from <<s1, p1>> to <<s2, p2>>.  createSession stamps createdAt with the
\* server's time, so the node changes with every accepted createSession.
Reports(op, code, s1, p1, s2, p2) ==
    IF op = "createSession" \/ ListenerFires(code, s1, p1, s2, p2)
    THEN <<s2[code]>>
    ELSE <<>>

\* The listeners of one page after the store has reported `snaps` at a code.
Enqueue(listeners, code, snaps) ==
    [i \in 1..Len(listeners) |->
        IF listeners[i].code = code
        THEN [listeners[i] EXCEPT !.queue = @ \o snaps]
        ELSE listeners[i]]

FacReported(code, snaps) ==
    [fac EXCEPT !.activeListeners = Enqueue(@, code, snaps)]

PartReported(code, snaps) ==
    [cl \in Clients |->
        [part[cl] EXCEPT !.activeListeners = Enqueue(@, code, snaps)]]

\* What the store reports for one write by `op`, when it accepts it.
WriteReports(op, code, accept, s2, p2) ==
    IF AwaitSet(accept) = "ok"
    THEN Reports(op, code, sessions, participants, s2, p2)
    ELSE <<>>

\* One write to the store by `op`: taken when the store accepts it.
StoreWrite(op, code, accept, s2, p2) ==
    /\ sessions' = IF AwaitSet(accept) = "ok" THEN s2 ELSE sessions
    /\ participants' = IF AwaitSet(accept) = "ok" THEN p2 ELSE participants

\* listenToSession: one more entry of activeListeners; its first
\* notification is the node as it is when the listener is registered.
listenToSession(listeners, code, snapshot) ==
    Append(listeners, [code |-> code, queue |-> <<snapshot>>, seen |-> -1,
                       changed |-> FALSE, repeated |-> FALSE])

Pending(l) == l.queue # <<>>

\* The listener's callback has run for the head of its queue.
Notified(listeners, i) ==
    [listeners EXCEPT ![i].queue = Tail(@),
                      ![i].seen = Head(listeners[i].queue).phase,
                      ![i].changed =
                        @ \/ (/\ listeners[i].seen # -1
                              /\ Head(listeners[i].queue).phase
                                    # listeners[i].seen),
                      ![i].repeated =
                        @ \/ Head(listeners[i].queue).phase = listeners[i].seen]

\* if (snapshot.exists()) callback(snapshot.val())
Mirror(l) == [set |-> TRUE, code |-> l.code, val |-> Head(l.queue)]

\* A step of a page that a user's input starts.
Input ==
    /\ inputs < MaxInputs
    /\ inputs' = inputs + 1

\* A step that follows from an earlier one: a promise settles, a timer or
\* a listener fires.
NoInput == UNCHANGED inputs

\* What no step of the facilitator page touches.
FacPage == UNCHANGED <<valVars, debVars, database, transcripts, themes,
                       lastCall, adapterCalls, nextId, gen, subscriptions,
                       startup, form, proxy, connection, recorder, retry>>

FacRest == FacPage /\ UNCHANGED dataTheme

FacOnly == FacRest /\ UNCHANGED localStorage

\* What no step of a participant page touches.
PartRest == UNCHANGED <<valVars, debVars, database, transcripts, themes,
                        lastCall, adapterCalls, gen, subscriptions,
                        startup, form, proxy, recorder, retry, dataTheme>>

PartOnly == PartRest /\ UNCHANGED <<connection, localStorage>>

NoStoreChange == UNCHANGED <<sessions, participants>>

\* localStorage.setItem(key, value) and localStorage.clear() in browser b.
setItem(storage, b, key, value) == [storage EXCEPT ![b][key] = value]

clear(storage, b) == [storage EXCEPT ![b] = [k \in StorageKeys |-> "null"]]

\* Utils.initTheme(): the saved theme, or the system's preference.
initTheme(storage, b) ==
    IF storage[b]["theme"] # "null" THEN storage[b]["theme"]
    ELSE IF dataTheme[b].prefersDark THEN "dark" ELSE "light"

\* Utils.toggleTheme(): the other theme than the page's data-theme.
toggleTheme(b) == IF dataTheme[b].attr = "light" THEN "dark" ELSE "light"

\* Utils.setTheme(theme): the data-theme attribute ...
setThemeAttribute(b, theme) == [dataTheme EXCEPT ![b].attr = theme]

\* ... and localStorage.setItem('theme', theme)
setTheme(storage, b, theme) == setItem(storage, b, "theme", theme)

\* The name typed into the join form, and the facilitator's default name.
ParticipantName == "Ann"

FacilitatorName == "Facilitator"

\* The presence path sessions/{code}/participants/{id}/status.
PresenceRef(code, pid) == [code |-> code, pid |-> pid]

\* setupPresence on a connected page: the `.info/connected` callback is
\* registered and runs at once with true, which arms onDisconnect() and
\* sets 'online' on the record joinSession has just written as 'online'.
setupPresence(c, code, pid) ==
    [c EXCEPT !.listeners = @ \cup {PresenceRef(code, pid)},
              !.hooks = @ \cup {PresenceRef(code, pid)},
              !.joined = @ \cup {PresenceRef(code, pid)}]

\* The function setupPresence returned: connectedRef.off() takes every
\* callback off `.info/connected`; its set('offline') is the caller's write.
presenceCleanup(c) == [c EXCEPT !.listeners = {}, !.firing = {}]

\* handleCreateSubmit up to `await FirebaseService.createSession(...)`
HandleCreateSubmit(sessionCode) ==
    /\ fac.screen = "create"
    /\ fac.pc = "idle"
    /\ fac' = [fac EXCEPT !.pc = "creating", !.code = sessionCode]
    /\ NoStoreChange
    /\ UNCHANGED part
    /\ Input
    /\ FacOnly

\* createSession's set() settles; handleCreateSubmit goes on to the
\* listeners and the video conference, or to its catch.
CreateSessionDone(facilitatorId, accept) ==
    LET s2 == SessionsAfterCreate(fac.code, facilitatorId)
        p2 == ParticipantsAfterCreate(fac.code)
        snaps == WriteReports("createSession", fac.code, accept, s2, p2)
    IN /\ fac.pc = "creating"
       /\ StoreWrite("createSession", fac.code, accept, s2, p2)
       /\ fac' =
            IF createSessionRet(accept) = "true"
            THEN [FacReported(fac.code, snaps) EXCEPT
                     !.pc = "video",
                     !.notice = Notice("true", {}),
                     !.activeListeners =
                        listenToSession(@, fac.code, s2[fac.code])]
            ELSE [fac EXCEPT !.pc = "idle", !.code = "",
                     !.notice =
                        Notice("false",
                               {"Failed to create workshop session",
                                "Failed to create workshop. Please try again."})]
       /\ part' = PartReported(fac.code, snaps)
       /\ localStorage' =
            IF createSessionRet(accept) = "true"
            THEN setItem(setItem(setItem(localStorage,
                    "facilitator", "facilitator_code", fac.code),
                    "facilitator", "facilitator_id", facilitatorId),
                    "facilitator", "facilitator_name", FacilitatorName)
            ELSE localStorage
       /\ NoInput
       /\ FacRest

\* `await joinVideoConference(...)` settles in handleCreateSubmit.
CreateVideoDone(joined) ==
    /\ fac.pc = "video"
    /\ fac' = IF joined
              THEN [fac EXCEPT !.pc = "idle", !.code = "",
                       !.screen = "workshop"]
              ELSE [fac EXCEPT !.pc = "idle", !.code = ""]
    /\ NoStoreChange
    /\ UNCHANGED part
    /\ NoInput
    /\ FacOnly

\* The facilitator's handleSessionUpdate, called by its i-th listener.
FacSessionUpdate(i) ==
    LET l == fac.activeListeners[i]
    IN /\ Pending(l)
       /\ fac' = [fac EXCEPT !.activeListeners = Notified(@, i),
                     !.sessionData = Mirror(l),
                     !.currentPhase = Mirror(l).val.phase]
       /\ NoStoreChange
       /\ UNCHANGED part
       /\ NoInput
       /\ FacOnly

\* The workshop screen's controls answer while the page shows it.
FacControls ==
    /\ fac.screen = "workshop"
    /\ fac.pc \in {"idle", "reloading"}

\* handlePhaseChange: returns at once without sessionData; otherwise it
\* writes the phase and does not look at what updatePhase returned.
HandlePhaseChange(newPhase, accept) ==
    LET code == fac.sessionData.code
        s2 == SessionsAfterPhase(code, newPhase)
        snaps == WriteReports("updatePhase", code, accept, s2, participants)
    IN /\ FacControls
       /\ fac.sessionData.set
       /\ StoreWrite("updatePhase", code, accept, s2, participants)
       /\ fac' = [FacReported(code, snaps) EXCEPT
                    !.notice = Notice(updatePhaseRet(accept),
                                      {"Moved to Phase"})]
       /\ part' = PartReported(code, snaps)
       /\ Input
       /\ FacOnly

\* The snapshots of stopTimer()'s write of the timer, when it makes one.
StopTimerReports(accept) ==
    IF fac.sessionData.set
    THEN WriteReports("updateTimer", fac.sessionData.code, accept,
                      SessionsAfterTimer(fac.sessionData.code, FALSE, 0),
                      participants)
    ELSE <<>>

\* stopTimer: clears the interval, then writes the timer off when the page
\* has its sessionData.  The write is not awaited and its result is unused;
\* `toasts` is what the caller shows.
stopTimer(accept, toasts) ==
    /\ IF fac.sessionData.set
       THEN StoreWrite("updateTimer", fac.sessionData.code, accept,
                       SessionsAfterTimer(fac.sessionData.code, FALSE, 0),
                       participants)
       ELSE NoStoreChange
    /\ fac' = [FacReported(fac.sessionData.code, StopTimerReports(accept))
                EXCEPT !.timerInterval = FALSE,
                       !.notice = IF fac.sessionData.set
                                  THEN Notice(updateTimerRet(accept), toasts)
                                  ELSE Notice("none", toasts)]
    /\ part' = PartReported(fac.sessionData.code, StopTimerReports(accept))
    /\ FacOnly

\* The stop button.
StopTimer(accept) == FacControls /\ Input /\ stopTimer(accept, {})

\* The interval's callback when timerSeconds reaches 0.
TimerFinished(accept) ==
    fac.timerInterval /\ NoInput /\ stopTimer(accept, {"Timer finished!"})

\* startTimer(seconds): stopTimer() first when an interval runs, then the
\* new interval and the write of the running timer.
StartTimer(acceptStop, acceptStart) ==
    LET code == fac.sessionData.code
        stopped == /\ fac.timerInterval
                   /\ fac.sessionData.set
                   /\ AwaitSet(acceptStop) = "ok"
        s1 == IF stopped THEN TimerWritten(sessions, code, FALSE, 0)
              ELSE sessions
        started == fac.sessionData.set /\ AwaitSet(acceptStart) = "ok"
        s2 == IF started THEN TimerWritten(s1, code, TRUE, TIMER_SECONDS)
              ELSE s1
        snaps ==
            IF fac.sessionData.set
            THEN Reports("updateTimer", code, sessions, participants, s1,
                         participants)
                 \o Reports("updateTimer", code, s1, participants, s2,
                            participants)
            ELSE <<>>
    IN /\ FacControls
       /\ sessions' = s2
       /\ UNCHANGED participants
       /\ fac' = [FacReported(code, snaps) EXCEPT
                    !.timerInterval = TRUE,
                    !.notice = IF fac.sessionData.set
                               THEN Notice(updateTimerRet(acceptStart), {})
                               ELSE Notice("none", {})]
       /\ part' = PartReported(code, snaps)
       /\ Input
       /\ FacOnly

\* The facilitator's cleanup(): the interval and every listener go.
FacCleanedUp(f) ==
    [f EXCEPT !.timerInterval = FALSE, !.activeListeners = <<>>]

\* handleEndSession up to `await FirebaseService.endSession(...)`; without
\* sessionData it goes straight to cleanup().  A declined confirm() ends it.
HandleEndSession(confirmed) ==
    /\ fac.screen = "workshop"
    /\ fac.pc = "idle"
    /\ fac' =
        IF ~confirmed THEN fac
        ELSE IF fac.sessionData.set
        THEN [fac EXCEPT !.pc = "ending", !.code = fac.sessionData.code]
        ELSE [FacCleanedUp(fac) EXCEPT
                 !.pc = "reloading",
                 !.notice = Notice("none", {"Workshop ended"})]
    /\ localStorage' =
        IF confirmed /\ ~fac.sessionData.set
        THEN clear(localStorage, "facilitator")
        ELSE localStorage
    /\ NoStoreChange
    /\ UNCHANGED part
    /\ Input
    /\ FacRest

\* endSession's set() settles; its result is not looked at: cleanup(),
\* localStorage.clear(), the success message, and the reload two seconds
\* later.
EndSessionDone(accept) ==
    LET s2 == SessionsAfterEnd(fac.code)
        snaps == WriteReports("endSession", fac.code, accept, s2,
                              participants)
    IN /\ fac.pc = "ending"
       /\ StoreWrite("endSession", fac.code, accept, s2, participants)
       /\ fac' = [FacCleanedUp(fac) EXCEPT
                    !.pc = "reloading", !.code = "",
                    !.notice = Notice(endSessionRet(accept),
                                      {"Workshop ended"})]
       /\ part' = PartReported(fac.code, snaps)
       /\ localStorage' = clear(localStorage, "facilitator")
       /\ NoInput
       /\ FacRest

\* setTimeout(() => { switchScreen('create'); window.location.reload() }),
\* and the init() of the page that is loaded: initTheme() first.
Reload ==
    /\ fac.pc = "reloading"
    /\ fac' = FacLoaded
    /\ localStorage' =
        setTheme(localStorage, "facilitator",
                 initTheme(localStorage, "facilitator"))
    /\ dataTheme' =
        setThemeAttribute("facilitator", initTheme(localStorage, "facilitator"))
    /\ NoStoreChange
    /\ UNCHANGED part
    /\ NoInput
    /\ FacPage

\* handleJoinSubmit up to the read of sessionExists inside joinSession.
HandleJoinSubmit(cl, code) ==
    /\ part[cl].screen = "join"
    /\ part[cl].pc = "idle"
    /\ nextId <= MaxIds
    /\ part' = [part EXCEPT ![cl].pc = "checking", ![cl].code = code,
                   ![cl].participantId = nextId]
    /\ nextId' = nextId + 1
    /\ NoStoreChange
    /\ UNCHANGED fac
    /\ Input
    /\ PartOnly

\* joinSession that goes on to the write whatever the check found
joinSessionUnchecked(exists) == TRUE

\* if (!exists) { showError('Workshop session not found'); return false }
joinSessionChecked(exists) == exists

\* `await this.sessionExists(...)` settles in joinSession: on to the write,
\* or false to handleJoinSubmit, which throws into its catch.
JoinSessionChecked(cl, readOk) ==
    /\ part[cl].pc = "checking"
    /\ part' =
        IF joinSessionChecked(sessionExists(part[cl].code, readOk))
        THEN [part EXCEPT ![cl].pc = "writing"]
        ELSE [part EXCEPT ![cl].pc = "idle", ![cl].code = "",
                 ![cl].toasts =
                    {"Workshop session not found",
                     "Failed to join workshop. Please try again."}]
    /\ NoStoreChange
    /\ UNCHANGED <<fac, nextId>>
    /\ NoInput
    /\ PartOnly

\* The participant record's set() settles; handleJoinSubmit goes on to
\* localStorage, presence, the listeners and the video conference, or to
\* its catch.
JoinSessionWritten(cl, accept) ==
    LET code == part[cl].code
        p2 == ParticipantsAfterJoin(code, part[cl].participantId)
        snaps == WriteReports("joinSession", code, accept, sessions, p2)
    IN /\ part[cl].pc = "writing"
       /\ StoreWrite("joinSession", code, accept, sessions, p2)
       /\ part' =
            IF joinSessionRet(TRUE, accept) = "true"
            THEN [PartReported(code, snaps) EXCEPT
                     ![cl].pc = "video",
                     ![cl].presenceCleanup =
                        [set |-> TRUE, code |-> code,
                         pid |-> part[cl].participantId],
                     ![cl].activeListeners =
                        listenToSession(@, code, sessions[code])]
            ELSE [part EXCEPT ![cl].pc = "idle", ![cl].code = "",
                     ![cl].toasts =
                        {"Failed to join workshop session",
                         "Failed to join workshop. Please try again."}]
       /\ fac' = FacReported(code, snaps)
       /\ localStorage' =
            IF joinSessionRet(TRUE, accept) = "true"
            THEN setItem(setItem(setItem(localStorage,
                    cl, "workshop_code", code),
                    cl, "participant_name", ParticipantName),
                    cl, "participant_id", ToString(part[cl].participantId))
            ELSE localStorage
       /\ connection' =
            IF joinSessionRet(TRUE, accept) = "true"
            THEN [connection EXCEPT
                     ![cl] = setupPresence(@, code, part[cl].participantId)]
            ELSE connection
       /\ UNCHANGED nextId
       /\ NoInput
       /\ PartRest

\* `await joinVideoConference(...)` settles in handleJoinSubmit.
JoinVideoDone(cl, joined) ==
    /\ part[cl].pc = "video"
    /\ part' =
        IF joined
        THEN [part EXCEPT ![cl].pc = "idle", ![cl].code = "",
                 ![cl].screen = "workshop",
                 ![cl].toasts = {"Joined workshop successfully!"}]
        ELSE [part EXCEPT ![cl].pc = "idle", ![cl].code = "",
                 ![cl].toasts = {"Failed to join workshop. Please try again."}]
    /\ NoStoreChange
    /\ UNCHANGED <<fac, nextId>>
    /\ NoInput
    /\ PartOnly

\* The participant's handleSessionUpdate, called by its i-th listener: an
\* ended session shows the error and sets the 3 s timer of handleLeave.
PartSessionUpdate(cl, i) ==
    LET l == part[cl].activeListeners[i]
        ended == Mirror(l).val.status = "ended"
    IN /\ Pending(l)
       /\ part' = [part EXCEPT ![cl].activeListeners = Notified(@, i),
                      ![cl].sessionData = Mirror(l),
                      ![cl].toasts =
                        IF ended THEN {"Workshop session has ended"} ELSE @,
                      ![cl].leaveTimers = IF ended THEN @ + 1 ELSE @]
       /\ NoStoreChange
       /\ UNCHANGED <<fac, nextId>>
       /\ NoInput
       /\ PartOnly

\* The participant's cleanup(): presenceCleanup() writes 'offline' at the
\* presence path, and FirebaseService.cleanup() drops every listener.
PartCleanedUp(p) ==
    [p EXCEPT !.presenceCleanup = NoPresence, !.activeListeners = <<>>]

\* handleLeave, from the leave button or from the timer that an ended
\* session set.  confirm('Are you sure you want to leave the workshop?')
\* comes first, and a declined one ends the handler; then the debounced
\* status call, cleanup(), localStorage.clear() and the join screen.
HandleLeave(cl, byTimer, confirmed, accept) ==
    LET p == part[cl]
        presence == p.presenceCleanup
        fired == [p EXCEPT !.leaveTimers = IF byTimer THEN @ - 1 ELSE @]
        left == [PartCleanedUp(fired) EXCEPT
                    !.screen = "join",
                    !.statusTimer =
                        IF p.sessionData.set /\ p.participantId # 0
                        THEN [pending |-> TRUE, code |-> p.sessionData.code,
                              pid |-> p.participantId, status |-> "offline"]
                        ELSE @]
        p2 == ParticipantsAfterStatus(presence.code, presence.pid, "offline")
        snaps == IF confirmed /\ presence.set
                 THEN WriteReports("presence", presence.code, accept,
                                   sessions, p2)
                 ELSE <<>>
    IN /\ IF byTimer THEN p.leaveTimers > 0
          ELSE p.screen = "workshop" /\ p.pc = "idle"
       /\ IF confirmed /\ presence.set
          THEN StoreWrite("presence", presence.code, accept, sessions, p2)
          ELSE NoStoreChange
       /\ part' =
            IF confirmed
            THEN [PartReported(presence.code, snaps) EXCEPT ![cl] = left]
            ELSE [part EXCEPT ![cl] = fired]
       /\ fac' = FacReported(presence.code, snaps)
       /\ localStorage' =
            IF confirmed THEN clear(localStorage, cl) ELSE localStorage
       /\ connection' =
            IF confirmed
            THEN [connection EXCEPT
                    ![cl] = [(IF presence.set THEN presenceCleanup(@) ELSE @)
                             EXCEPT !.left = @ \cup connection[cl].joined,
                                    !.joined = {},
                                    !.refused =
                                        @ \/ (presence.set /\ ~accept)]]
            ELSE connection
       /\ IF byTimer THEN NoInput ELSE Input
       /\ UNCHANGED nextId
       /\ PartRest

\* The debounced status write of the page runs.
StatusTimerFire(cl, accept) ==
    LET t == part[cl].statusTimer
        p2 == ParticipantsAfterStatus(t.code, t.pid, t.status)
        snaps == WriteReports("updateParticipantStatus", t.code, accept,
                              sessions, p2)
    IN /\ t.pending
       /\ StoreWrite("updateParticipantStatus", t.code, accept, sessions, p2)
       /\ part' = [PartReported(t.code, snaps) EXCEPT
                      ![cl].statusTimer = NoStatusTimer]
       /\ fac' = FacReported(t.code, snaps)
       /\ connection' = [connection EXCEPT ![cl].refused = @ \/ ~accept]
       /\ UNCHANGED <<nextId, localStorage>>
       /\ NoInput
       /\ PartRest

Init ==
    /\ ValIdle
    /\ DebIdle
    /\ StoreEmpty
    /\ database = "db"
    /\ lastCall = NoCall
    /\ adapterCalls = 0
    /\ CtlIdle

Next ==
    \/ \E code \in RoomCodes : HandleCreateSubmit(code)
    \/ \E f \in FacilitatorIds, accept \in BOOLEAN :
        CreateSessionDone(f, accept)
    \/ \E joined \in BOOLEAN : CreateVideoDone(joined)
    \/ \E i \in 1..Len(fac.activeListeners) : FacSessionUpdate(i)
    \/ \E newPhase \in Phases, accept \in BOOLEAN :
        HandlePhaseChange(newPhase, accept)
    \/ \E a1, a2 \in BOOLEAN : StartTimer(a1, a2)
    \/ \E accept \in BOOLEAN : StopTimer(accept)
    \/ \E accept \in BOOLEAN : TimerFinished(accept)
    \/ \E confirmed \in BOOLEAN : HandleEndSession(confirmed)
    \/ \E accept \in BOOLEAN : EndSessionDone(accept)
    \/ Reload
    \/ \E cl \in Clients, code \in Codes : HandleJoinSubmit(cl, code)
    \/ \E cl \in Clients, readOk \in BOOLEAN : JoinSessionChecked(cl, readOk)
    \/ \E cl \in Clients, accept \in BOOLEAN : JoinSessionWritten(cl, accept)
    \/ \E cl \in Clients, joined \in BOOLEAN : JoinVideoDone(cl, joined)
    \/ \E cl \in Clients :
        \E i \in 1..Len(part[cl].activeListeners) : PartSessionUpdate(cl, i)
    \/ \E cl \in Clients, byTimer, confirmed, accept \in BOOLEAN :
        HandleLeave(cl, byTimer, confirmed, accept)
    \/ \E cl \in Clients, accept \in BOOLEAN : StatusTimerFire(cl, accept)

Spec == Init /\ [][Next]_vars

-----------------------------------------------------------------------------
(* SpecThemes: the facilitator's handleGenerateThemes over the store, from
   the moment the workshop screen shows a created session.  The participant
   pages appear by the transcripts they save. *)

\* ref.orderByChild('phaseIndex').equalTo(phaseIndex): the records whose
\* phaseIndex is the phase, in the order they were pushed.
RECURSIVE EqualTo(_, _)
EqualTo(records, phaseIndex) ==
    IF records = <<>> THEN <<>>
    ELSE (IF Head(records).phaseIndex = phaseIndex
          THEN <<Head(records)>> ELSE <<>>)
         \o EqualTo(Tail(records), phaseIndex)

TranscriptsOfPhase(code, phaseIndex) == EqualTo(transcripts[code], phaseIndex)

\* getTranscripts: the matching records, or [] from its catch.
getTranscripts(code, phaseIndex, readOk) ==
    IF database = "null" \/ ~readOk THEN <<>>
    ELSE TranscriptsOfPhase(code, phaseIndex)

\* Object.entries(tableTranscripts): the tables that have a transcript, in
\* ascending order of their number.
RECURSIVE TablesFrom(_, _)
TablesFrom(found, n) ==
    IF n > Cardinality(Tables) THEN <<>>
    ELSE (IF \E i \in 1..Len(found) : found[i].tableNumber = n
          THEN <<n>> ELSE <<>>) \o TablesFrom(found, n + 1)

\* handleGenerateThemes that goes on with an empty list
NoTranscriptsIgnored(found) == FALSE

\* if (transcripts.length === 0)
NoTranscripts(found) == Len(found) = 0

GenOnly == UNCHANGED <<valVars, debVars, database, sessions, participants,
                       lastCall, adapterCalls, nextId, fac, part,
                       subscriptions,
                startup, form, proxy, pageVars>>

\* A participant page of the session saves a transcript for its table and
\* the phase of its own mirror.
SaveTranscript(code, tableNumber, phaseIndex, accept) ==
    /\ Len(transcripts[code]) < MaxTranscripts
    /\ transcripts' =
        IF AwaitSet(accept) = "ok"
        THEN TranscriptsAfterSave(code, tableNumber, phaseIndex)
        ELSE transcripts
    /\ UNCHANGED <<themes, gen, inputs>>
    /\ GenOnly

\* handleGenerateThemes up to `await FirebaseService.getTranscripts(...)`:
\* it returns at once, showing nothing, when the page has no sessionData.
HandleGenerateThemes ==
    /\ FacControls
    /\ gen.pc = "idle"
    /\ Input
    /\ gen' =
        IF fac.sessionData.set
        THEN [gen EXCEPT !.pc = "reading", !.runs = @ + 1,
                 !.code = fac.sessionData.code, !.phase = fac.currentPhase,
                 !.toast = "", !.proxyCalls = 0, !.themeWrites = 0,
                 !.found = <<>>, !.failed = FALSE]
        ELSE [gen EXCEPT !.runs = @ + 1, !.toast = "", !.proxyCalls = 0,
                 !.themeWrites = 0, !.found = <<>>, !.failed = FALSE]
    /\ UNCHANGED <<transcripts, themes>>
    /\ GenOnly

\* getTranscripts settles: the error and the end of the run when the list
\* is empty, otherwise the tables to go through (a loop over no table goes
\* straight to the success message).
TranscriptsRead(readOk) ==
    LET found == getTranscripts(gen.code, gen.phase, readOk)
    IN /\ gen.pc = "reading"
       /\ gen' =
            IF NoTranscripts(found)
            THEN [gen EXCEPT !.pc = "idle",
                     !.toast = "No transcripts found for this phase"]
            ELSE IF TablesFrom(found, 1) = <<>>
            THEN [gen EXCEPT !.pc = "idle",
                     !.toast = "Themes generated successfully!"]
            ELSE [gen EXCEPT !.pc = "proxy", !.found = found,
                     !.tables = TablesFrom(found, 1)]
       /\ UNCHANGED <<transcripts, themes, inputs>>
       /\ GenOnly

\* The labels of the theme arrays the proxy answers with.
Labels ==
    [th \in ThemeLists |->
        IF th = "themes_a" THEN <<"Trust", "Shared goals">>
        ELSE <<"Time pressure", "Cost", "Hand-over">>]

\* String(array): the elements joined by commas, as a list of pieces.
RECURSIVE ArrayToString(_)
ArrayToString(array) ==
    IF array = <<>> THEN <<>>
    ELSE IF Len(array) = 1 THEN array
    ELSE <<Head(array), ",">> \o ArrayToString(Tail(array))

\* Texts that are JSON, and the values they parse to.
JsonTexts == {<<"null">>, <<"true">>, <<"12">>}

\* JSON.parse(text): the value, or a SyntaxError.
JSONparse(text) == IF text \in JsonTexts THEN Head(text) ELSE "throw"

\* The fallback generateThemesFromText hands to safeJsonParse.
PlaceholderThemes == "Theme 1, Theme 2, Theme 3"

\* Utils.safeJsonParse(str, fallback): JSON.parse turns its argument into
\* a string first; the fallback when it throws.
safeJsonParse(str, fallback) ==
    IF JSONparse(str) = "throw" THEN fallback ELSE JSONparse(str)

\* generateThemesFromText without its try/catch
generateThemesFromTextUncaught(ok, th) ==
    IF ok THEN safeJsonParse(ArrayToString(Labels[th]), PlaceholderThemes)
    ELSE "throw"

\* generateThemesFromText: data.themes of the proxy's answer, an array,
\* handed to safeJsonParse; or the fallback of its catch when the fetch or
\* the answer fails.
generateThemesFromText(ok, th) ==
    IF ok THEN safeJsonParse(ArrayToString(Labels[th]), PlaceholderThemes)
    ELSE "Theme extraction failed"

\* generateThemesFromText settles for the next table.  An exception in the
\* loop would end the run in handleGenerateThemes's catch.
ThemesGenerated(ok, th) ==
    /\ gen.pc = "proxy"
    /\ gen' =
        IF generateThemesFromText(ok, th) = "throw"
        THEN [gen EXCEPT !.pc = "idle", !.tables = <<>>,
                 !.proxyCalls = @ + 1,
                 !.toast = "Failed to generate themes"]
        ELSE [gen EXCEPT !.pc = "saving",
                 !.themes = generateThemesFromText(ok, th),
                 !.answer = IF ok THEN th ELSE "failed",
                 !.failed = @ \/ ~ok,
                 !.proxyCalls = @ + 1]
    /\ UNCHANGED <<transcripts, themes, inputs>>
    /\ GenOnly

\* saveThemes settles for the table; its result is not looked at.  After
\* the last table the run ends with the success message.
ThemesSaved(accept) ==
    /\ gen.pc = "saving"
    /\ themes' =
        IF AwaitSet(accept) = "ok"
        THEN ThemesAfterSave(fac.sessionData.code, Head(gen.tables),
                             gen.themes)
        ELSE themes
    /\ gen' =
        IF Tail(gen.tables) = <<>>
        THEN [gen EXCEPT !.pc = "idle", !.tables = <<>>, !.themes = "",
                 !.answer = "none", !.themeWrites = @ + 1,
                 !.failed = @ \/ saveThemesRet(accept) = "false",
                 !.toast = "Themes generated successfully!"]
        ELSE [gen EXCEPT !.pc = "proxy", !.tables = Tail(@), !.themes = "",
                 !.answer = "none", !.themeWrites = @ + 1,
                 !.failed = @ \/ saveThemesRet(accept) = "false"]
    /\ UNCHANGED <<transcripts, inputs>>
    /\ GenOnly

\* The workshop screen shows the session that handleCreateSubmit has
\* created; the first notification of its listener is still to come.
ThemesInit ==
    /\ PageIdle
    /\ ValIdle
    /\ DebIdle
    /\ database = "db"
    /\ lastCall = NoCall
    /\ adapterCalls = 0
    /\ \E code \in RoomCodes, f \in FacilitatorIds :
        /\ sessions = [c \in Codes |->
                        IF c = code THEN createSessionData(f) ELSE NoSession]
        /\ fac = [FacLoaded EXCEPT
                    !.screen = "workshop",
                    !.activeListeners =
                        listenToSession(<<>>, code, createSessionData(f))]
    /\ participants = [c \in Codes |-> [p \in Pids |-> NoParticipant]]
    /\ transcripts = [c \in Codes |-> <<>>]
    /\ themes = [c \in Codes |-> [n \in Tables |-> NoThemes]]
    /\ inputs = 1
    /\ nextId = 1
    /\ part = [cl \in Clients |-> PartLoaded]
    /\ gen = GenIdle
    /\ subscriptions = <<>>
    /\ startup = StartupIdle
    /\ form = FormIdle
    /\ proxy = ProxyIdle

ThemesNext ==
    \/ \E i \in 1..Len(fac.activeListeners) : FacSessionUpdate(i)
    \/ \E newPhase \in Phases, accept \in BOOLEAN :
        HandlePhaseChange(newPhase, accept)
    \/ \E code \in RoomCodes, n \in Tables, ph \in Phases, accept \in BOOLEAN :
        SaveTranscript(code, n, ph, accept)
    \/ HandleGenerateThemes
    \/ \E readOk \in BOOLEAN : TranscriptsRead(readOk)
    \/ \E ok \in BOOLEAN, th \in ThemeLists : ThemesGenerated(ok, th)
    \/ \E accept \in BOOLEAN : ThemesSaved(accept)

SpecThemes == ThemesInit /\ [][ThemesNext]_vars

\* The store holds no transcript of the code for the phase.
NoneStored(code, phaseIndex) == TranscriptsOfPhase(code, phaseIndex) = <<>>

\* The read of a run settles while the store holds no transcript for the
\* phase the run asked for: the run ends with the error, having called the
\* proxy and written themes zero times.
EmptyReadRefused ==
    (/\ gen.pc = "reading"
     /\ gen'.pc # "reading"
     /\ NoneStored(gen.code, gen.phase))
    => /\ gen'.pc = "idle"
       /\ gen'.toast = "No transcripts found for this phase"
       /\ gen'.proxyCalls = 0
       /\ gen'.themeWrites = 0
       /\ themes' = themes

\* C5 (amended): when handleGenerateThemes runs on a page that has its
\* sessionData and the store holds no transcript for the page's current
\* phase, it shows 'No transcripts found for this phase', makes no call to
\* the proxy and writes no themes; on a page without sessionData it
\* returns at once: no message, no call, no write.
GenerateWithoutTranscripts ==
    [][/\ EmptyReadRefused
       /\ (gen'.runs # gen.runs /\ ~fac.sessionData.set)
            => /\ gen'.pc = "idle"
               /\ gen'.toast = ""
               /\ gen'.proxyCalls = 0
               /\ gen'.themeWrites = 0
               /\ themes' = themes]_vars

\* A run has ended with the error while the store holds transcripts of the
\* session for another phase.
NoTranscriptsShown ==
    /\ gen.pc = "idle"
    /\ gen.toast = "No transcripts found for this phase"
    /\ transcripts[gen.code] # <<>>
    /\ NoneStored(gen.code, gen.phase)
    /\ gen.proxyCalls = 0

\* C5 (as claimed): whenever handleGenerateThemes runs and the store holds
\* no transcript for the session's current phase, it shows the 'no
\* transcripts' error, makes no call to the proxy and writes no themes.
GenerateAlwaysReportsNone ==
    [][/\ EmptyReadRefused
       /\ (/\ gen'.runs # gen.runs
           /\ \A code \in RoomCodes : NoneStored(code, fac.currentPhase))
            => \/ gen'.pc = "reading"
               \/ gen'.toast = "No transcripts found for this phase"]_vars

-----------------------------------------------------------------------------
(* Claims about the controllers, checked under Spec. *)

\* C1: joinSession for a code that has no session record in the store
\* returns false, shows the error 'Workshop session not found', and writes
\* nothing: the store is unchanged and the call is over, so that no
\* participant record follows from it.
JoinRefusedWithoutSession ==
    [][\A cl \in Clients :
        (/\ part[cl].pc = "checking"
         /\ part'[cl].pc # "checking"
         /\ ~SnapshotExists(part[cl].code))
        => /\ \A accept \in BOOLEAN :
                joinSessionRet(sessionExists(part[cl].code, TRUE), accept)
                    = "false"
           /\ part'[cl].pc = "idle"
           /\ part'[cl].screen = "join"
           /\ "Workshop session not found" \in part'[cl].toasts
           /\ storeVars' = storeVars
           /\ part'[cl].activeListeners = part[cl].activeListeners
           /\ part'[cl].presenceCleanup = part[cl].presenceCleanup]_vars

\* A join has been refused for want of a session: the page shows the error
\* and the store holds no record of the participant id it had made.
JoinRefused ==
    \E cl \in Clients :
        /\ "Workshop session not found" \in part[cl].toasts
        /\ part[cl].pc = "idle"
        /\ part[cl].participantId # 0
        /\ \A c \in Codes : ~participants[c][part[cl].participantId].exists

\* The last snapshot reported to a listener has the status.
LastReported(l, status) ==
    /\ l.queue # <<>>
    /\ l.queue[Len(l.queue)].status = status

\* C2 (as claimed): when the facilitator's endSession is accepted the
\* store's status is ended and every participant listener of the session
\* is notified with status ended; and the handleLeave that the notification
\* sets off takes the participant out: cleanup done (no listener, no
\* presence handle) and the join screen shown.
EndedSessionEmptied ==
    [][/\ \A c \in Codes :
            (fac.pc = "ending" /\ fac'.pc # "ending" /\ fac.code = c
             /\ sessions'[c] # sessions[c])
            => /\ sessions'[c].status = "ended"
               /\ \A cl \in Clients :
                    \A i \in 1..Len(part[cl].activeListeners) :
                        part[cl].activeListeners[i].code = c =>
                            LastReported(part'[cl].activeListeners[i], "ended")
       /\ \A cl \in Clients :
            part'[cl].leaveTimers < part[cl].leaveTimers
            => /\ part'[cl].screen = "join"
               /\ part'[cl].activeListeners = <<>>
               /\ ~part'[cl].presenceCleanup.set]_vars

\* The listeners of a page at a code.
ListenersAt(p, c) ==
    {i \in 1..Len(p.activeListeners) : p.activeListeners[i].code = c}

\* The page listens at the code only, and has handled every notification.
CaughtUp(p, c) ==
    /\ p.activeListeners # <<>>
    /\ \A i \in 1..Len(p.activeListeners) :
        /\ p.activeListeners[i].code = c
        /\ p.activeListeners[i].queue = <<>>

\* C3 (amended): no phase change written while a participant is subscribed
\* is missed: once the participant's listeners have handled every
\* notification, the mirror holds the phase the store holds.  The same
\* phase value may reach handleSessionUpdate again, for the listener fires
\* on every change under the session.
PhaseNotMissed ==
    \A cl \in Clients : \A c \in Codes :
        CaughtUp(part[cl], c) =>
            /\ part[cl].sessionData.set
            /\ part[cl].sessionData.code = c
            /\ part[cl].sessionData.val.phase = sessions[c].phase

\* A participant has handled the notification of a phase that was changed
\* while it was subscribed, and has nothing more to handle.
PhaseDelivered ==
    \E cl \in Clients : \E c \in Codes :
        /\ CaughtUp(part[cl], c)
        /\ sessions[c].phase # 0
        /\ part[cl].sessionData.val.phase = sessions[c].phase
        /\ \E i \in ListenersAt(part[cl], c) :
            part[cl].activeListeners[i].changed

\* C3 (as claimed): no phase change is missed and no phase value reaches
\* handleSessionUpdate twice for one change, whatever else is written under
\* the session.
PhaseExactlyOnce ==
    \A cl \in Clients : \A c \in Codes :
        /\ CaughtUp(part[cl], c) =>
            part[cl].sessionData.val.phase = sessions[c].phase
        /\ \A i \in ListenersAt(part[cl], c) :
            ~part[cl].activeListeners[i].repeated

\* C8 (as claimed): once the store's status of a session is ended, no step
\* of a controller or of the adapter changes its status, phase or timer.
EndedIsTerminal ==
    [][\A c \in Codes :
        sessions[c].status = "ended" =>
            /\ sessions'[c].status = sessions[c].status
            /\ sessions'[c].phase = sessions[c].phase
            /\ sessions'[c].timerActive = sessions[c].timerActive
            /\ sessions'[c].timerDuration = sessions[c].timerDuration]_vars

-----------------------------------------------------------------------------
\* SpecListen: the adapter's listeners.  A client subscribes with
\* listenToSession and listenToParticipants, keeps the handles they return,
\* invokes them, and writes to the store in between.

\* Store writes made in one run.
MaxListenWrites == 2

\* What the store reports to a listener.
ValueEvent(snapshotExists) == [event |-> "value", exists |-> snapshotExists]

ChildEvent(event) == [event |-> event, exists |-> TRUE]

\* child_added / child_removed below sessions/{code}/participants for a
\* change of the participants from p1 to p2, over the ids 1..n.
RECURSIVE ChildEvents(_, _, _, _)
ChildEvents(code, p1, p2, n) ==
    IF n = 0 THEN <<>>
    ELSE ChildEvents(code, p1, p2, n - 1) \o
         (IF ~p1[code][n].exists /\ p2[code][n].exists
          THEN <<ChildEvent("child_added")>>
          ELSE IF p1[code][n].exists /\ ~p2[code][n].exists
               THEN <<ChildEvent("child_removed")>>
               ELSE <<>>)

NoParticipants == [c \in Codes |-> [p \in Pids |-> NoParticipant]]

\* ref.on(event, ...) for each event of `events`; the first notifications
\* are the data as it is when the listener is registered.  `listed` are the
\* entries pushed to activeListeners, one for each event.
Subscribed(op, code, events, first) ==
    [op |-> op, code |-> code, registered |-> events, listed |-> events,
     handled |-> FALSE, queue |-> first, calls |-> 0, dropped |-> 0]

\* ref.off(event, listener) with a function that was never registered
offOther(l, event) == l

\* ref.off(event, listener)
off(l, event) == [l EXCEPT !.registered = @ \ {event}]

\* The handle listenToSession returns: () => ref.off('value', listener)
sessionHandle(l) == off(l, "value")

\* The handle listenToParticipants returns
participantsHandle(l) == off(off(l, "child_added"), "child_removed")

\* The handle listenToThemes returns: () => ref.off('value', listener)
themesHandle(l) == off(l, "value")

\* ref.off(event, callback) for the entries one subscription pushed
offListed(l) ==
    IF l.op = "listenToParticipants" THEN participantsHandle(l)
    ELSE IF l.op = "listenToThemes" THEN themesHandle(l)
    ELSE sessionHandle(l)

\* cleanup() that only empties activeListeners
cleanupForgets(subs) ==
    [i \in 1..Len(subs) |-> [subs[i] EXCEPT !.listed = {}]]

\* cleanup(): ref.off(event, callback) for every entry of activeListeners,
\* then activeListeners.length = 0
cleanup(subs) ==
    [i \in 1..Len(subs) |->
        [(IF subs[i].listed = {} THEN subs[i] ELSE offListed(subs[i]))
            EXCEPT !.listed = {}]]

ListenOnly == UNCHANGED <<valVars, debVars, inputs, nextId, fac, part, gen,
                startup, form, proxy, pageVars>>

\* The client subscribes once with each of the two.
NotSubscribed(op) ==
    \A i \in 1..Len(subscriptions) : subscriptions[i].op # op

ListenToSession(code) ==
    /\ NotSubscribed("listenToSession")
    /\ subscriptions' =
        Append(subscriptions,
               Subscribed("listenToSession", code, {"value"},
                          <<ValueEvent(SnapshotExists(code))>>))
    /\ UNCHANGED <<storeVars, lastCall, adapterCalls>>
    /\ ListenOnly

ListenToParticipants(code) ==
    /\ NotSubscribed("listenToParticipants")
    /\ subscriptions' =
        Append(subscriptions,
               Subscribed("listenToParticipants", code,
                          {"child_added", "child_removed"},
                          ChildEvents(code, NoParticipants, participants,
                                      MaxIds)))
    /\ UNCHANGED <<storeVars, lastCall, adapterCalls>>
    /\ ListenOnly

\* The client invokes the handle of its i-th subscription.
Unsubscribe(i) ==
    /\ ~subscriptions[i].handled
    /\ subscriptions' =
        [subscriptions EXCEPT
            ![i] = [offListed(@) EXCEPT !.handled = TRUE]]
    /\ UNCHANGED <<storeVars, lastCall, adapterCalls>>
    /\ ListenOnly

\* The client calls cleanup() while activeListeners has entries.
Cleanup ==
    /\ \E i \in 1..Len(subscriptions) : subscriptions[i].listed # {}
    /\ subscriptions' = cleanup(subscriptions)
    /\ UNCHANGED <<storeVars, lastCall, adapterCalls>>
    /\ ListenOnly

\* The listener's function runs the callback it was given: for a value
\* event at the session only if (snapshot.exists()), for one at the themes
\* always (snapshot.val() || {}).
RunsCallback(l, e) ==
    /\ e.event \in l.registered
    /\ (e.event = "value" /\ l.op = "listenToSession") => e.exists

\* The store's next notification reaches the i-th subscription.
Deliver(i) ==
    /\ subscriptions[i].queue # <<>>
    /\ subscriptions' =
        [subscriptions EXCEPT
            ![i] = LET e == Head(@.queue)
                   IN [@ EXCEPT
                        !.queue = Tail(@),
                        !.calls = IF RunsCallback(subscriptions[i], e)
                                  THEN @ + 1 ELSE @,
                        !.dropped = IF e.event \in subscriptions[i].registered
                                    THEN @ ELSE @ + 1]]
    /\ UNCHANGED <<storeVars, lastCall, adapterCalls>>
    /\ ListenOnly

\* What the store sends to one subscription for the write the step makes.
EventsFor(l) ==
    IF l.op = "listenToSession"
    THEN IF \/ lastCall'.op = "createSession" /\ lastCall'.wrote
            \/ ListenerFires(l.code, sessions, participants,
                             sessions', participants')
         THEN <<ValueEvent(sessions'[l.code].exists
                           \/ \E p \in Pids : participants'[l.code][p].exists)>>
         ELSE <<>>
    ELSE IF l.op = "listenToThemes"
    THEN IF themes'[l.code] # themes[l.code]
         THEN <<ValueEvent(TRUE)>>
         ELSE <<>>
    ELSE ChildEvents(l.code, participants, participants', MaxIds)

\* A write to the store by any client, reported to every subscription.
ListenWritten ==
    /\ adapterCalls < MaxListenWrites
    /\ adapterCalls' = adapterCalls + 1
    /\ subscriptions' =
        [i \in 1..Len(subscriptions) |->
            [subscriptions[i] EXCEPT !.queue = @ \o EventsFor(subscriptions[i])]]
    /\ ListenOnly

ListenNext ==
    \/ \E code \in RoomCodes : ListenToSession(code)
    \/ \E code \in RoomCodes : ListenToParticipants(code)
    \/ \E i \in 1..Len(subscriptions) : Unsubscribe(i)
    \/ Cleanup
    \/ \E i \in 1..Len(subscriptions) : Deliver(i)
    \/ \E code \in RoomCodes, f \in FacilitatorIds, accept \in BOOLEAN :
        CallCreateSession(code, f, accept) /\ ListenWritten
    \/ \E code \in RoomCodes, pid \in Pids, accept \in BOOLEAN :
        CallJoinSession(code, pid, TRUE, accept) /\ ListenWritten
    \/ \E code \in RoomCodes, accept \in BOOLEAN :
        CallEndSession(code, accept) /\ ListenWritten

\* A facilitator has created the session of the room code.
ListenInit ==
    /\ ValIdle
    /\ DebIdle
    /\ \E code \in RoomCodes, f \in FacilitatorIds :
        sessions = [c \in Codes |->
                     IF c = code THEN createSessionData(f) ELSE NoSession]
    /\ participants = NoParticipants
    /\ transcripts = [c \in Codes |-> <<>>]
    /\ themes = [c \in Codes |-> [n \in Tables |-> NoThemes]]
    /\ database = "db"
    /\ lastCall = NoCall
    /\ adapterCalls = 0
    /\ CtlIdle

SpecListen == ListenInit /\ [][ListenNext]_vars

\* C11: listenToSession and listenToParticipants each return a handle, and
\* once the handle of a subscription has been invoked, the callbacks given
\* to that subscription are not run again, whatever the store reports
\* afterwards.
UnsubscribedStaysSilent ==
    [][\A i \in 1..Len(subscriptions) :
        subscriptions[i].handled =>
            subscriptions'[i].calls = subscriptions[i].calls]_vars

\* Both kinds of subscription ran their callbacks, had their handles
\* invoked, and the store reported later changes that reached neither.
UnsubscribedMissedChange ==
    /\ \E i \in 1..Len(subscriptions) :
        /\ subscriptions[i].op = "listenToSession"
        /\ subscriptions[i].handled
        /\ subscriptions[i].calls > 0
        /\ subscriptions[i].dropped > 0
    /\ \E i \in 1..Len(subscriptions) :
        /\ subscriptions[i].op = "listenToParticipants"
        /\ subscriptions[i].handled
        /\ subscriptions[i].calls > 0
        /\ subscriptions[i].dropped > 0

-----------------------------------------------------------------------------
\* The tables that have a transcript among the records read.
TablesOf(found) == {found[i].tableNumber : i \in 1..Len(found)}

\* A run of handleGenerateThemes that went through its tables ends.
RunEnds == gen.pc \in {"proxy", "saving"} /\ gen'.pc = "idle"

\* C12: a run of handleGenerateThemes over transcripts of k tables makes k
\* calls to the completion proxy and k theme writes, one table at a time:
\* a call is in flight only when every earlier table's write has settled,
\* a write only when its table's call has.  A write changes the themes of
\* its own table alone, and no failed call or write ends the run before
\* the k-th write.
GenerateOnePerTable ==
    /\ [](gen.pc = "proxy" => gen.proxyCalls = gen.themeWrites)
    /\ [](gen.pc = "saving" => gen.proxyCalls = gen.themeWrites + 1)
    /\ [][RunEnds =>
            /\ gen'.proxyCalls = Cardinality(TablesOf(gen.found))
            /\ gen'.themeWrites = Cardinality(TablesOf(gen.found))]_vars
    /\ [][\A c \in Codes, n \in Tables :
            themes'[c][n] # themes[c][n] =>
                /\ gen.pc = "saving"
                /\ c = fac.sessionData.code
                /\ n = Head(gen.tables)]_vars

\* A run over two tables has ended: the store refused the write for
\* table 1, and table 2 was still processed and written.
GenerateWentOnAfterFailure ==
    /\ gen.pc = "idle"
    /\ gen.toast = "Themes generated successfully!"
    /\ Cardinality(TablesOf(gen.found)) = 2
    /\ gen.proxyCalls = 2
    /\ gen.themeWrites = 2
    /\ ~themes[gen.code][1].exists
    /\ themes[gen.code][2].exists

-----------------------------------------------------------------------------
(* SpecStartup: the pages start with the configuration the build left in
   config.js, run FirebaseService.init, and take create and join
   submissions.  Both pages load the same config.js. *)

\* Values a key of CONFIG.FIREBASE can hold after the build: a placeholder
\* left as it was, a resolved value, a value with a single brace, nothing.
ConfigValues ==
    {<<"{", "{", "K", "}", "}">>, ResolvedValue, <<"{", "k">>, <<>>}

\* value.includes('{{')
IncludesBraces(value) ==
    \E i \in 1..(Len(value) - 1) : value[i] = "{" /\ value[i + 1] = "{"

\* Object.values(CONFIG.FIREBASE).some(value => ... value.includes('{{'))
hasPlaceholders(config) == \E k \in FirebaseKeys : IncludesBraces(config[k])

\* init(): true at once when the app exists; false from the catch when a
\* placeholder is left or the connection test fails.
FirebaseInitRet(config, connected) ==
    IF database # "null" THEN "true"
    ELSE IF hasPlaceholders(config) THEN "false"
    ELSE IF connected THEN "true" ELSE "false"

\* init() reaches `await database.ref('.info/connected').once('value')`
\* and the read succeeds.
ConnectionTested(config, connected) ==
    database = "null" /\ ~hasPlaceholders(config) /\ connected

\* `await FirebaseService.init()` in a page's init(): the page does not
\* look at what it returns.  `inits` counts the calls and `tested` tells
\* whether a connection test has succeeded in one of them.
PageInit(pg, connected) ==
    /\ startup.ret[pg] = "none"
    /\ startup' =
        [startup EXCEPT
            !.ret[pg] = FirebaseInitRet(startup.config, connected),
            !.error[pg] = FirebaseInitRet(startup.config, connected) = "false",
            !.inits = @ + 1,
            !.tested = @ \/ ConnectionTested(startup.config, connected)]
    /\ database' =
        IF database = "null" /\ ~hasPlaceholders(startup.config)
        THEN "db" ELSE database
    /\ UNCHANGED <<valVars, debVars, sessions, participants, transcripts,
                   themes, lastCall, adapterCalls, inputs, nextId, fac, part,
                   gen, subscriptions, form, proxy, pageVars>>

\* The page's init() has gone through FirebaseService.init().
Started(pg) == startup.ret[pg] # "none"

StartupNext ==
    \/ \E pg \in Pages, connected \in BOOLEAN : PageInit(pg, connected)
    \/ /\ Started("facilitator")
       /\ \E code \in RoomCodes : HandleCreateSubmit(code)
    \/ \E f \in FacilitatorIds, accept \in BOOLEAN :
        CreateSessionDone(f, accept)
    \/ \E joined \in BOOLEAN : CreateVideoDone(joined)
    \/ /\ Started("participant")
       /\ \E cl \in Clients, code \in Codes : HandleJoinSubmit(cl, code)
    \/ \E cl \in Clients, readOk \in BOOLEAN : JoinSessionChecked(cl, readOk)
    \/ \E cl \in Clients, accept \in BOOLEAN : JoinSessionWritten(cl, accept)
    \/ \E cl \in Clients, joined \in BOOLEAN : JoinVideoDone(cl, joined)

StartupInit ==
    /\ PageIdle
    /\ ValIdle
    /\ DebIdle
    /\ StoreEmpty
    /\ database = "null"
    /\ lastCall = NoCall
    /\ adapterCalls = 0
    /\ gen = GenIdle
    /\ inputs = 0
    /\ nextId = 1
    /\ fac = FacLoaded
    /\ part = [cl \in Clients |-> PartLoaded]
    /\ subscriptions = <<>>
    /\ form = FormIdle
    /\ proxy = ProxyIdle
    /\ \E config \in [FirebaseKeys -> ConfigValues] :
        startup = [StartupIdle EXCEPT !.config = config]

SpecStartup == StartupInit /\ [][StartupNext]_vars

\* C13: with a placeholder left in the store configuration, init returns
\* false and neither page takes a create or join submission any further:
\* no handler is waiting on an adapter operation.
ConfigErrorBlocksStartup ==
    hasPlaceholders(startup.config) =>
        /\ \A pg \in Pages : startup.ret[pg] \in {"none", "false"}
        /\ fac.pc = "idle"
        /\ \A cl \in Clients : part[cl].pc = "idle"

-----------------------------------------------------------------------------
\* The notifications Utils.showSuccess gives on the facilitator page.
SuccessMessages ==
    {"Moved to Phase", "Workshop ended", "Timer finished!",
     "Workshop created successfully!", "Themes generated successfully!"}

\* C14: when the store write of a facilitator operation (create, phase
\* change, timer update, end session) has failed, the handler shows an
\* error notification and no success notification.
StoreErrorsSurfaced ==
    fac.notice.ret = "false" =>
        /\ fac.notice.toasts # {}
        /\ fac.notice.toasts \cap SuccessMessages = {}

-----------------------------------------------------------------------------
(* SpecJoinForm: handleJoinSubmit on the texts of the join form, up to its
   first await. *)

\* Texts of the room code field: empty, too short, a code in lowercase, a
\* code with characters the validator strips, too long.
CodeInputs ==
    {<<>>, Repeat("A", SESSION_CODE_LENGTH - 1), Repeat("a", SESSION_CODE_LENGTH),
     <<" ">> \o Repeat("A", SESSION_CODE_LENGTH) \o <<"-">>,
     Repeat("A", SESSION_CODE_LENGTH + 1)}

\* The notifications validateParticipantName shows.
validateParticipantNameErrors(name) ==
    IF name = <<>> THEN {"Name is required"}
    ELSE IF Len(Substring0(Trim(name), MAX_NAME_LENGTH)) < MIN_NAME_LENGTH
         THEN {"Name must be at least 2 characters"}
         ELSE {}

\* The notifications validateRoomCode shows.
validateRoomCodeErrors(code) ==
    IF code = <<>> THEN {"Room code is required"}
    ELSE IF Len(SelectSeq(ToUpperCase(Trim(code)), IsCodeChar))
                # SESSION_CODE_LENGTH
         THEN {"Room code must be exactly 6 characters"}
         ELSE {}

\* !value for what a validator returns: null or the empty string
Falsy(value) == value = Null \/ value = <<>>

\* handleJoinSubmit up to `await FirebaseService.joinSession(code, ...)`,
\* whose first step is the read of sessionExists: both validators run, then
\* `if (!name || !code) return;`.
JoinFormSubmit(cl) ==
    LET name == validateParticipantName(form.name)
        code == validateRoomCode(form.code)
        errors == validateParticipantNameErrors(form.name)
                    \cup validateRoomCodeErrors(form.code)
    IN /\ ~form.submitted
       /\ part[cl].screen = "join"
       /\ part[cl].pc = "idle"
       /\ nextId <= MaxIds
       /\ IF Falsy(name) \/ Falsy(code)
          THEN /\ form' = [form EXCEPT !.submitted = TRUE]
               /\ part' = [part EXCEPT ![cl].toasts = errors]
               /\ UNCHANGED nextId
          ELSE /\ form' = [form EXCEPT !.submitted = TRUE,
                              !.sentName = name, !.sentCode = code]
               /\ part' = [part EXCEPT ![cl].pc = "checking",
                              ![cl].participantId = nextId,
                              ![cl].toasts = errors]
               /\ nextId' = nextId + 1
       /\ UNCHANGED <<valVars, debVars, storeVars, lastCall, adapterCalls,
                      inputs, fac, gen, subscriptions, startup, proxy, pageVars>>

JoinFormNext == \E cl \in Clients : JoinFormSubmit(cl)

JoinFormInit ==
    /\ PageIdle
    /\ ValIdle
    /\ DebIdle
    /\ StoreEmpty
    /\ database = "db"
    /\ lastCall = NoCall
    /\ adapterCalls = 0
    /\ gen = GenIdle
    /\ inputs = 0
    /\ nextId = 1
    /\ fac = FacLoaded
    /\ part = [cl \in Clients |-> PartLoaded]
    /\ subscriptions = <<>>
    /\ startup = StartupIdle
    /\ proxy = ProxyIdle
    /\ \E name \in Inputs, code \in CodeInputs :
        form = [FormIdle EXCEPT !.name = name, !.code = code]

SpecJoinForm == JoinFormInit /\ [][JoinFormNext]_vars

\* C15: when handleJoinSubmit is given a name with fewer than 2 valid
\* characters or a code that does not have exactly 6 alphanumerics, it
\* shows an error notification and goes no further: no call of joinSession
\* (store read and write) and no video join.
InvalidJoinRefused ==
    /\ form.submitted
    /\ \/ Len(NameContent(form.name)) < MIN_NAME_LENGTH
       \/ Len(CodeContent(form.code)) # SESSION_CODE_LENGTH
    => \A cl \in Clients :
        /\ part[cl].toasts # {}
        /\ part[cl].pc = "idle"

-----------------------------------------------------------------------------
(* SpecProxy: one invocation of exports.handler of openai-proxy.js or
   whisper-proxy.js, from the request to the response, with the upstream
   API answering, failing, or not answering at all. *)

\* setTimeout(() => controller.abort(), ...)
OPENAI_TIMEOUT_MS == 30000

WHISPER_TIMEOUT_MS == 60000

Methods == {"OPTIONS", "GET", "POST"}

\* process.env.OPENAI_API_KEY: unset, the placeholder left by the build, a
\* key.
ApiKeys == {<<>>, <<"{", "{", "K", "}", "}">>, <<"k">>}

\* !process.env.OPENAI_API_KEY || process.env.OPENAI_API_KEY.includes('{{')
KeyNotConfigured(key) == key = <<>> \/ IncludesBraces(key)

\* event.body of a completion request, and what JSON.parse and the
\* destructuring make of it: an exception, or the prompt.
OpenAiBodies == {"not json", "{}", "{prompt: ''}", "{prompt: 'text'}"}

ParsedPrompt(body) ==
    CASE body = "not json" -> "throw"
      [] body = "{}" -> "undefined"
      [] body = "{prompt: ''}" -> ""
      [] OTHER -> "text"

\* event.body of a transcription request: Buffer.from(null, 'base64')
\* throws.
WhisperBodies == {"null", "base64 audio"}

ContentTypes ==
    {"undefined", "application/json", "multipart/form-data; boundary=x"}

\* !contentType || !contentType.includes('multipart/form-data')
NotMultipart(contentType) ==
    contentType \in {"undefined", "application/json"}

Requests ==
    {[kind |-> "openai", httpMethod |-> m, key |-> k, body |-> b,
      contentType |-> "application/json"] :
        m \in Methods, k \in ApiKeys, b \in OpenAiBodies}
    \cup
    {[kind |-> "whisper", httpMethod |-> m, key |-> k, body |-> b,
      contentType |-> ct] :
        m \in Methods, k \in ApiKeys, b \in WhisperBodies,
        ct \in ContentTypes}

\* A JSON value, as far as its type and the types of an array's items.
Json(type, items) == [type |-> type, items |-> items]

NotJson == Json("invalid", <<>>)

\* The content of the model's message: what JSON.parse makes of it, and its
\* lines (TRUE for a line with text, FALSE for a blank one).
Content(text, parsed, lines) ==
    [text |-> text, parsed |-> parsed, lines |-> lines]

Contents ==
    {Content("", NotJson, <<FALSE>>),
     Content("[\"a\", \"b\"]", Json("array", <<"string", "string">>),
             <<TRUE>>),
     Content("[1]", Json("array", <<"number">>), <<TRUE>>),
     Content("{\"themes\": [\"a\"]}", Json("object", <<>>), <<TRUE>>),
     Content("\"a\"", Json("string", <<>>), <<TRUE>>),
     Content("null", Json("null", <<>>), <<TRUE>>),
     Content("- a\n\n- b", NotJson, <<TRUE, FALSE, TRUE>>),
     Content("1\n2\n3\n4\n5\n6", NotJson,
             <<TRUE, TRUE, TRUE, TRUE, TRUE, TRUE>>)}

\* data.choices[0]?.message?.content || '[]'
ContentOrDefault(content) ==
    IF content.text = ""
    THEN Content("[]", Json("array", <<>>), <<TRUE>>)
    ELSE content

IsTrue(b) == b

\* content.split('\n').filter(line => line.trim()).slice(0, 5)
FirstLines(content) ==
    LET kept == SelectSeq(content.lines, IsTrue)
    IN Json("array",
            [i \in 1..(IF Len(kept) < 5 THEN Len(kept) ELSE 5) |-> "string"])

\* try { themes = JSON.parse(content) } catch (e) { themes = ...lines }
ThemesOf(content) ==
    IF ContentOrDefault(content).parsed = NotJson
    THEN FirstLines(ContentOrDefault(content))
    ELSE ContentOrDefault(content).parsed

\* What `await response.json()` gives for an upstream answer: an exception
\* for a body that is not JSON, a TypeError at data.choices[0] without
\* choices, '[]' for an empty list of choices, otherwise the content.
UpstreamData ==
    {[json |-> FALSE, choices |-> "undefined", content |-> c] :
        c \in {Content("", NotJson, <<FALSE>>)}}
    \cup {[json |-> TRUE, choices |-> ch, content |-> c] :
            ch \in {"undefined", "empty"},
            c \in {Content("", NotJson, <<FALSE>>)}}
    \cup {[json |-> TRUE, choices |-> "one", content |-> c] : c \in Contents}

Response(statusCode, kind, payload) ==
    [statusCode |-> statusCode, kind |-> kind, payload |-> payload]

NoPayload == Json("none", <<>>)

\* The outer catch answering 200
proxyCatchOk(kind) == Response(200, "error", NoPayload)

\* catch (error) { return { statusCode: 500, body: {error, message} } }
proxyCatch(kind) == Response(500, "error", NoPayload)

\* The handler up to its first await: its response, or "fetch" when it
\* goes on to the upstream request.
HandlerStart(req) ==
    IF req.httpMethod = "OPTIONS" THEN Response(204, "empty", NoPayload)
    ELSE IF req.httpMethod # "POST" THEN Response(405, "error", NoPayload)
    ELSE IF KeyNotConfigured(req.key) THEN proxyCatch(req.kind)
    ELSE IF req.kind = "openai"
    THEN IF ParsedPrompt(req.body) = "throw" THEN proxyCatch(req.kind)
         ELSE IF ParsedPrompt(req.body) \in {"undefined", ""}
         THEN Response(400, "error", NoPayload)
         ELSE Response(0, "fetch", NoPayload)
    ELSE IF NotMultipart(req.contentType)
         THEN Response(400, "error", NoPayload)
         ELSE IF req.body = "null" THEN proxyCatch(req.kind)
         ELSE Response(0, "fetch", NoPayload)

\* What the handler fails on before its upstream request, if anything.
StartFailure(req) ==
    IF req.httpMethod # "POST" THEN "none"
    ELSE IF KeyNotConfigured(req.key) THEN "credential"
    ELSE IF HandlerStart(req) = proxyCatch(req.kind) THEN "exception"
    ELSE "none"

ProxyOnly ==
    UNCHANGED <<valVars, debVars, storeVars, lastCall, adapterCalls, inputs,
                nextId, fac, part, gen, subscriptions, startup, form,
                pageVars>>

\* The platform invokes the handler; it answers at once or sends its
\* upstream request with the abort timer set.
ProxyInvoked ==
    /\ proxy.pc = "request"
    /\ proxy' =
        IF HandlerStart(proxy.req).kind = "fetch"
        THEN [proxy EXCEPT
                !.pc = "fetching", !.upstream = @ + 1,
                !.timer = IF proxy.req.kind = "openai"
                          THEN OPENAI_TIMEOUT_MS ELSE WHISPER_TIMEOUT_MS]
        ELSE [proxy EXCEPT
                !.pc = "done",
                !.responses = Append(@, HandlerStart(proxy.req)),
                !.failure = StartFailure(proxy.req)]
    /\ ProxyOnly

\* fetch resolves with the upstream's status line and headers:
\* clearTimeout(timeout), then `await response.json()` for the body.
FetchResolved(ok) ==
    /\ proxy.pc = "fetching"
    /\ proxy' = [proxy EXCEPT !.pc = "reading", !.timer = 0, !.ok = ok]
    /\ ProxyOnly

\* fetch rejects (the network fails): the inner catch clears the timer and
\* rethrows to the outer catch.
FetchRejected ==
    /\ proxy.pc = "fetching"
    /\ proxy' = [proxy EXCEPT
                    !.pc = "done", !.timer = 0, !.failure = "exception",
                    !.responses = Append(@, proxyCatch(proxy.req.kind))]
    /\ ProxyOnly

\* The timer fires: controller.abort() rejects the fetch with an
\* AbortError, which the inner catch turns into the timeout error.
TimeoutFired ==
    /\ proxy.timer > 0
    /\ proxy.pc = "fetching"
    /\ proxy' = [proxy EXCEPT
                    !.pc = "done", !.timer = 0, !.failure = "abort",
                    !.responses = Append(@, proxyCatch(proxy.req.kind))]
    /\ ProxyOnly

\* `await response.json()` settles.  A status that is not OK is thrown
\* whatever the body holds; the completion proxy reads the content, the
\* transcription proxy passes data.text on.
BodyRead(data) ==
    /\ proxy.pc = "reading"
    /\ proxy' =
        IF ~proxy.ok
        THEN [proxy EXCEPT
                !.pc = "done", !.failure = "status",
                !.responses = Append(@, proxyCatch(proxy.req.kind))]
        ELSE IF ~data.json
             \/ (proxy.req.kind = "openai" /\ data.choices = "undefined")
        THEN [proxy EXCEPT
                !.pc = "done", !.failure = "exception",
                !.responses = Append(@, proxyCatch(proxy.req.kind))]
        ELSE IF proxy.req.kind = "openai"
        THEN [proxy EXCEPT
                !.pc = "done",
                !.responses =
                    Append(@, Response(200, "themes", ThemesOf(data.content)))]
        ELSE [proxy EXCEPT
                !.pc = "done",
                !.responses = Append(@, Response(200, "transcript", NoPayload))]
    /\ ProxyOnly

ProxyNext ==
    \/ ProxyInvoked
    \/ \E ok \in BOOLEAN : FetchResolved(ok)
    \/ FetchRejected
    \/ TimeoutFired
    \/ \E data \in UpstreamData : BodyRead(data)

ProxyInit ==
    /\ PageIdle
    /\ ValIdle
    /\ DebIdle
    /\ StoreEmpty
    /\ database = "db"
    /\ lastCall = NoCall
    /\ adapterCalls = 0
    /\ gen = GenIdle
    /\ inputs = 0
    /\ nextId = 1
    /\ fac = FacLoaded
    /\ part = [cl \in Clients |-> PartLoaded]
    /\ subscriptions = <<>>
    /\ startup = StartupIdle
    /\ form = FormIdle
    /\ \E req \in Requests : proxy = [ProxyIdle EXCEPT !.req = req,
                                                       !.pc = "request"]

SpecProxy == ProxyInit /\ [][ProxyNext]_vars

\* C16: an invocation of either proxy sends at most one upstream request
\* and gives at most one response; when it has failed after the method
\* check (credential missing or a placeholder, upstream status not OK,
\* abort, any exception) its one response has status 500 and an error
\* payload; when the method is not POST, the prompt is missing or the
\* content type is not multipart, it has sent no upstream request.
ProxyFailsOnce ==
    /\ proxy.upstream <= 1
    /\ Len(proxy.responses) <= 1
    /\ proxy.pc = "done" => Len(proxy.responses) = 1
    /\ proxy.failure # "none" =>
        /\ proxy.pc = "done"
        /\ proxy.responses[1].statusCode = 500
        /\ proxy.responses[1].kind = "error"
    /\ \/ proxy.req.httpMethod # "POST"
       \/ proxy.req.kind = "openai"
            /\ ParsedPrompt(proxy.req.body) \in {"undefined", "", "throw"}
       \/ proxy.req.kind = "whisper" /\ NotMultipart(proxy.req.contentType)
       => proxy.upstream = 0

\* A proxy sent its upstream request, the timer fired before the upstream
\* answered, and the handler gave its one 500.
ProxyTimedOut ==
    /\ proxy.pc = "done"
    /\ proxy.failure = "abort"
    /\ proxy.upstream = 1
    /\ proxy.responses = <<proxyCatch(proxy.req.kind)>>

\* C17: whenever a handler waits on the upstream, for the response or for
\* its body, its abort timer is set.
TimeoutArmedWhileWaiting ==
    proxy.pc \in {"fetching", "reading"} => proxy.timer > 0

\* C18: every 200 response of the completion proxy carries themes that are
\* an array of strings.
ThemesAlwaysArray ==
    \A i \in 1..Len(proxy.responses) :
        /\ proxy.req.kind = "openai"
        /\ proxy.responses[i].statusCode = 200
        => /\ proxy.responses[i].payload.type = "array"
           /\ \A j \in 1..Len(proxy.responses[i].payload.items) :
                proxy.responses[i].payload.items[j] = "string"

-----------------------------------------------------------------------------
\* C19: no operation removes a participant record: a record that exists
\* under a session before a step exists after it.
ParticipantsNeverRemoved ==
    [][\A c \in Codes, p \in Pids :
        participants[c][p].exists => participants'[c][p].exists]_vars

\* The keys of the transcripts stored under a code.
KeysOf(records) == {records[i].key : i \in 1..Len(records)}

\* C20: transcripts are write-once and append-only: the records under a
\* code have distinct keys, a step leaves every record that exists as it
\* is and in its place, and a record it adds has a key not used before.
TranscriptsAppendOnly ==
    /\ [](\A c \in Codes :
            Cardinality(KeysOf(transcripts[c])) = Len(transcripts[c]))
    /\ [][\A c \in Codes :
            /\ Len(transcripts'[c]) >= Len(transcripts[c])
            /\ SubSeq(transcripts'[c], 1, Len(transcripts[c]))
                = transcripts[c]
            /\ \A i \in (Len(transcripts[c]) + 1)..Len(transcripts'[c]) :
                transcripts'[c][i].key \notin KeysOf(transcripts[c])]_vars

\* Two transcripts were saved under one code; the call made last was a
\* saveTranscript that returned the second record's key.
TwoTranscriptsKept ==
    \E c \in Codes :
        /\ Len(transcripts[c]) = 2
        /\ transcripts[c][1].key # transcripts[c][2].key
        /\ lastCall.op = "saveTranscript"
        /\ lastCall.ret = transcripts[c][2].key

-----------------------------------------------------------------------------
(* SpecPresence: one participant page, its link to the store and the
   presence hooks of setupPresence, over a session that a facilitator has
   created.  The page's handlers run while the link is up.  The store
   notices a lost link some time after the page has lost it and then runs
   the onDisconnect() writes the page had armed; the page comes back after
   that, and its `.info/connected` callbacks run again. *)

PresenceRefs == {PresenceRef(c, p) : c \in Codes, p \in Pids}

StatusOf(r) == participants[r.code][r.pid].status

LinkUp(cl) == connection[cl].link = "up"

ConnectionOnly ==
    UNCHANGED <<valVars, debVars, database, transcripts, themes, lastCall,
                adapterCalls, inputs, nextId, gen, subscriptions, startup,
                form, proxy, localStorage, recorder, retry,
                dataTheme>>

\* The times a page loses its link in one run.
MaxLosses == 1

\* The page loses its link: `.info/connected` turns false.
ConnectionLost(cl) ==
    /\ LinkUp(cl)
    /\ connection[cl].losses < MaxLosses
    /\ connection' = [connection EXCEPT ![cl].link = "lost",
                                        ![cl].firing = {},
                                        ![cl].losses = @ + 1]
    /\ NoStoreChange
    /\ UNCHANGED <<fac, part>>
    /\ ConnectionOnly

\* The store runs presenceRef.onDisconnect().set('offline') of a lost link.
OnDisconnect(cl, r) ==
    LET p2 == ParticipantsAfterStatus(r.code, r.pid, "offline")
        snaps == WriteReports("presence", r.code, TRUE, sessions, p2)
    IN /\ connection[cl].link = "lost"
       /\ r \in connection[cl].hooks
       /\ StoreWrite("presence", r.code, TRUE, sessions, p2)
       /\ connection' = [connection EXCEPT ![cl].hooks = @ \ {r}]
       /\ fac' = FacReported(r.code, snaps)
       /\ part' = PartReported(r.code, snaps)
       /\ ConnectionOnly

\* The link is back: every `.info/connected` callback is due with true.
Reconnected(cl) ==
    /\ connection[cl].link = "lost"
    /\ connection[cl].hooks = {}
    /\ connection' = [connection EXCEPT ![cl].link = "up",
                                        ![cl].firing =
                                            connection[cl].listeners]
    /\ NoStoreChange
    /\ UNCHANGED <<fac, part>>
    /\ ConnectionOnly

\* The callback of setupPresence runs with true: it arms onDisconnect()
\* again and sets 'online'.
ConnectedCallback(cl, r, accept) ==
    LET p2 == ParticipantsAfterStatus(r.code, r.pid, "online")
        snaps == WriteReports("presence", r.code, accept, sessions, p2)
    IN /\ LinkUp(cl)
       /\ r \in connection[cl].firing
       /\ StoreWrite("presence", r.code, accept, sessions, p2)
       /\ connection' = [connection EXCEPT ![cl].firing = @ \ {r},
                                           ![cl].hooks = @ \cup {r},
                                           ![cl].refused = @ \/ ~accept]
       /\ fac' = FacReported(r.code, snaps)
       /\ part' = PartReported(r.code, snaps)
       /\ ConnectionOnly

PresenceNext ==
    \/ \E cl \in Clients, code \in Codes :
        LinkUp(cl) /\ HandleJoinSubmit(cl, code)
    \/ \E cl \in Clients, readOk \in BOOLEAN :
        LinkUp(cl) /\ JoinSessionChecked(cl, readOk)
    \/ \E cl \in Clients, accept \in BOOLEAN :
        LinkUp(cl) /\ JoinSessionWritten(cl, accept)
    \/ \E cl \in Clients, joined \in BOOLEAN :
        LinkUp(cl) /\ JoinVideoDone(cl, joined)
    \/ \E cl \in Clients :
        \E i \in 1..Len(part[cl].activeListeners) : PartSessionUpdate(cl, i)
    \/ \E cl \in Clients, confirmed, accept \in BOOLEAN :
        LinkUp(cl) /\ HandleLeave(cl, FALSE, confirmed, accept)
    \/ \E cl \in Clients, accept \in BOOLEAN :
        LinkUp(cl) /\ StatusTimerFire(cl, accept)
    \/ \E cl \in Clients : ConnectionLost(cl)
    \/ \E cl \in Clients, r \in PresenceRefs : OnDisconnect(cl, r)
    \/ \E cl \in Clients : Reconnected(cl)
    \/ \E cl \in Clients, r \in PresenceRefs, accept \in BOOLEAN :
        ConnectedCallback(cl, r, accept)

PresenceInit == ListenInit

SpecPresence == PresenceInit /\ [][PresenceNext]_vars

\* The store does run the hooks of a lost link, and the page's timers and
\* callbacks do run while its link is up.
PresenceFairness ==
    \A cl \in Clients :
        /\ \A r \in PresenceRefs :
            /\ WF_vars(OnDisconnect(cl, r))
            /\ WF_vars(\E accept \in BOOLEAN : ConnectedCallback(cl, r, accept))
        /\ WF_vars(\E accept \in BOOLEAN :
                      LinkUp(cl) /\ StatusTimerFire(cl, accept))

SpecPresenceFair == SpecPresence /\ PresenceFairness

\* The page's presence is at rest: link up, no callback due, no status
\* write pending.
PresenceAtRest(cl) ==
    /\ LinkUp(cl)
    /\ connection[cl].firing = {}
    /\ ~part[cl].statusTimer.pending

\* C21: presence tracks liveness.  Unless the store has refused a status
\* write of the page: a participant id the page has joined and then left
\* (handleLeave confirmed) gets the status offline and keeps it; an id
\* whose page has lost its link gets the status offline; and an id the
\* page has joined and not left is online while the page's presence is at
\* rest.
PresenceTracksLiveness ==
    /\ \A cl \in Clients, r \in PresenceRefs :
        /\ (r \in connection[cl].left)
            ~> (StatusOf(r) = "offline" \/ connection[cl].refused)
        /\ (connection[cl].link = "lost" /\ r \in connection[cl].hooks)
            ~> (StatusOf(r) = "offline")
    /\ [][\A cl \in Clients, r \in PresenceRefs :
            (r \in connection[cl].left /\ StatusOf(r) = "offline")
                => (participants'[r.code][r.pid].status = "offline")]_vars
    /\ [](\A cl \in Clients, r \in PresenceRefs :
            (/\ r \in connection[cl].joined
             /\ PresenceAtRest(cl)
             /\ ~connection[cl].refused)
                => StatusOf(r) = "online")

-----------------------------------------------------------------------------
(* SpecRules: the two pages over a store that enforces the database rules
   of the README: under sessions/$sessionId, ".read": true and
   ".write": "auth != null || !data.exists()".  The rule stands at
   sessions/{code} and no rule below it grants more, so it decides every
   write at or below that node, with `data` the node before the write.
   The steps that only follow a stored participant record (the video
   conference of a participant, its notifications and its leave) are never
   enabled under these rules and are left out of the next-state relation. *)

\* `auth != null`: FirebaseService.init never signs in.
Authenticated == FALSE

\* ".write": "auth != null || !data.exists()" at sessions/{code}
RulesAccept(code) == Authenticated \/ ~sessions[code].exists

RulesNext ==
    \/ \E code \in RoomCodes : HandleCreateSubmit(code)
    \/ \E f \in FacilitatorIds : CreateSessionDone(f, RulesAccept(fac.code))
    \/ \E joined \in BOOLEAN : CreateVideoDone(joined)
    \/ \E i \in 1..Len(fac.activeListeners) : FacSessionUpdate(i)
    \/ \E newPhase \in Phases :
        HandlePhaseChange(newPhase, RulesAccept(fac.sessionData.code))
    \/ StartTimer(RulesAccept(fac.sessionData.code),
                  RulesAccept(fac.sessionData.code))
    \/ StopTimer(RulesAccept(fac.sessionData.code))
    \/ TimerFinished(RulesAccept(fac.sessionData.code))
    \/ \E confirmed \in BOOLEAN : HandleEndSession(confirmed)
    \/ EndSessionDone(RulesAccept(fac.code))
    \/ Reload
    \/ \E cl \in Clients, code \in Codes : HandleJoinSubmit(cl, code)
    \/ \E cl \in Clients, readOk \in BOOLEAN : JoinSessionChecked(cl, readOk)
    \/ \E cl \in Clients : JoinSessionWritten(cl, RulesAccept(part[cl].code))

SpecRules == Init /\ [][RulesNext]_vars

\* C22: under the README's rules and without authentication, joinSession
\* on a session that exists returns true and stores the participant
\* record, the end-session write of the facilitator is accepted, and no
\* phase or timer write of the facilitator's workshop screen is refused.
RulesAdmitWorkshop ==
    /\ [][\A cl \in Clients :
            (part[cl].pc = "writing" /\ sessions[part[cl].code].exists)
                => /\ part'[cl].pc = "video"
                   /\ participants'[part[cl].code][part[cl].participantId]
                        .exists]_vars
    /\ [][fac.pc = "ending" => sessions'[fac.code].status = "ended"]_vars
    /\ [](fac.screen = "workshop" => fac.notice.ret # "false")

-----------------------------------------------------------------------------
(* SpecRejoin: a participant page from its load on, over a session that
   exists, in the phase and with the timer the facilitator has left it,
   and holds the record of participant 1 from an earlier visit of the
   same browser (offline since that page went away).  localStorage
   holds what that visit saved, or nothing.  init() runs autoRejoin before
   setupEventListeners() and FirebaseService.init(); after init() the join
   form works as in Spec. *)

\* The participant id that localStorage.getItem('participant_id') names.
PidOf(value) == CHOOSE p \in Pids : ToString(p) = value

\* savedCode && savedName && savedId
Saved(storage) ==
    /\ storage["workshop_code"] # "null"
    /\ storage["participant_name"] # "null"
    /\ storage["participant_id"] # "null"

\* What the earlier visit saved in initTheme and in handleJoinSubmit.
SavedVisit(code, pid) ==
    [k \in StorageKeys |->
        IF k = "workshop_code" THEN code
        ELSE IF k = "participant_name" THEN ParticipantName
        ELSE IF k = "participant_id" THEN ToString(pid)
        ELSE IF k = "theme" THEN ThemeIdle["p1"].attr
        ELSE "null"]

RejoinOnly ==
    UNCHANGED <<valVars, debVars, transcripts, themes, lastCall,
                adapterCalls, inputs, nextId, fac, gen, subscriptions,
                startup, form, proxy, recorder, retry>>

\* init() up to its first await: initTheme(); then with code and name in
\* the URL it fills the form; otherwise, with the three saved values, it
\* calls autoRejoin.
ParticipantInit(cl, urlParams) ==
    /\ part[cl].pc = "loading"
    /\ part' =
        IF ~urlParams /\ Saved(localStorage[cl])
        THEN [part EXCEPT ![cl].pc = "rejoining",
                          ![cl].code = localStorage[cl]["workshop_code"]]
        ELSE [part EXCEPT ![cl].pc = "init"]
    /\ localStorage' = setTheme(localStorage, cl, initTheme(localStorage, cl))
    /\ dataTheme' = setThemeAttribute(cl, initTheme(localStorage, cl))
    /\ NoStoreChange
    /\ UNCHANGED <<database, connection>>
    /\ RejoinOnly

\* autoRejoin(code, name, id): false and a cleared localStorage when
\* sessionExists gives false or when the video conference fails; otherwise
\* the record is written under the saved id (joinSession's result is not
\* looked at) and true is returned.
autoRejoin(code, readOk, joined) ==
    IF ~sessionExists(code, readOk) THEN "false"
    ELSE IF joined THEN "true" ELSE "false"

\* `await autoRejoin(...)` in init(), as one step: the page is alone with
\* the store here.  After true init() returns; after false it goes on.
AutoRejoin(cl, readOk, accept, joined) ==
    LET code == part[cl].code
        pid == PidOf(localStorage[cl]["participant_id"])
        exists == sessionExists(code, readOk)
        p2 == ParticipantsAfterJoin(code, pid)
        snaps == WriteReports("joinSession", code, accept, sessions, p2)
    IN /\ part[cl].pc = "rejoining"
       /\ IF exists
          THEN StoreWrite("joinSession", code, accept, sessions, p2)
          ELSE NoStoreChange
       /\ part' =
            IF exists
            THEN [part EXCEPT
                    ![cl].pc = IF joined THEN "idle" ELSE "init",
                    ![cl].code = "",
                    ![cl].participantId = pid,
                    ![cl].presenceCleanup =
                        [set |-> TRUE, code |-> code, pid |-> pid],
                    ![cl].activeListeners =
                        listenToSession(@, code, sessions[code]),
                    ![cl].screen = IF joined THEN "workshop" ELSE @,
                    ![cl].toasts =
                        IF joined THEN {"Rejoined workshop!"} ELSE @]
            ELSE [part EXCEPT ![cl].pc = "init", ![cl].code = ""]
       /\ localStorage' =
            IF autoRejoin(code, readOk, joined) = "true"
            THEN localStorage
            ELSE clear(localStorage, cl)
       /\ connection' =
            IF exists
            THEN [connection EXCEPT ![cl] = setupPresence(@, code, pid)]
            ELSE connection
       /\ UNCHANGED <<database, dataTheme>>
       /\ RejoinOnly

\* setupEventListeners() and `await FirebaseService.init()` at the end of
\* init(): `database` is set from here on.
ParticipantReady(cl, connected) ==
    /\ part[cl].pc = "init"
    /\ part' = [part EXCEPT ![cl].pc = "idle"]
    /\ database' = "db"
    /\ NoStoreChange
    /\ UNCHANGED <<connection, localStorage, dataTheme>>
    /\ RejoinOnly

RejoinNext ==
    \/ \E cl \in Clients, urlParams \in BOOLEAN : ParticipantInit(cl, urlParams)
    \/ \E cl \in Clients, readOk, accept, joined \in BOOLEAN :
        AutoRejoin(cl, readOk, accept, joined)
    \/ \E cl \in Clients, connected \in BOOLEAN : ParticipantReady(cl, connected)
    \/ \E cl \in Clients, code \in Codes : HandleJoinSubmit(cl, code)
    \/ \E cl \in Clients, readOk \in BOOLEAN : JoinSessionChecked(cl, readOk)
    \/ \E cl \in Clients, accept \in BOOLEAN : JoinSessionWritten(cl, accept)
    \/ \E cl \in Clients, joined \in BOOLEAN : JoinVideoDone(cl, joined)
    \/ \E cl \in Clients :
        \E i \in 1..Len(part[cl].activeListeners) : PartSessionUpdate(cl, i)
    \/ \E cl \in Clients, confirmed, accept \in BOOLEAN :
        HandleLeave(cl, FALSE, confirmed, accept)
    \/ \E cl \in Clients, accept \in BOOLEAN : StatusTimerFire(cl, accept)

RejoinInit ==
    /\ ValIdle
    /\ DebIdle
    /\ \E code \in RoomCodes, f \in FacilitatorIds, ph \in Phases,
          running \in BOOLEAN :
        /\ sessions =
            [c \in Codes |->
                IF c = code
                THEN [createSessionData(f) EXCEPT
                        !.phase = ph, !.timerActive = running,
                        !.timerDuration =
                            IF running THEN TIMER_SECONDS ELSE 0]
                ELSE NoSession]
        /\ participants =
            [NoParticipants EXCEPT
                ![code][1] = [exists |-> TRUE, status |-> "offline"]]
        /\ \E saved \in {SavedVisit(code, 1), StorageEmpty["p1"]} :
            localStorage = [StorageEmpty EXCEPT !["p1"] = saved]
    /\ transcripts = [c \in Codes |-> <<>>]
    /\ themes = [c \in Codes |-> [n \in Tables |-> NoThemes]]
    /\ database = "null"
    /\ lastCall = NoCall
    /\ adapterCalls = 0
    /\ gen = GenIdle
    /\ inputs = 0
    /\ nextId = 2
    /\ fac = FacLoaded
    /\ part = [cl \in Clients |-> [PartLoaded EXCEPT !.pc = "loading"]]
    /\ subscriptions = <<>>
    /\ startup = StartupIdle
    /\ form = FormIdle
    /\ proxy = ProxyIdle
    /\ connection = ConnectionIdle
    /\ dataTheme = [ThemeIdle EXCEPT !["p1"].attr = "null"]
    /\ recorder = RecorderIdle
    /\ retry = RetryIdle

SpecRejoin == RejoinInit /\ [][RejoinNext]_vars

\* init() runs on: the page's own code needs no one to go on.
SpecRejoinFair ==
    /\ SpecRejoin
    /\ \A cl \in Clients :
        /\ WF_vars(\E urlParams \in BOOLEAN : ParticipantInit(cl, urlParams))
        /\ WF_vars(\E readOk, accept, joined \in BOOLEAN :
                      AutoRejoin(cl, readOk, accept, joined))
        /\ WF_vars(\E connected \in BOOLEAN : ParticipantReady(cl, connected))

\* C23: auto-rejoin.  A page that was loaded without code and name in the
\* URL and with a saved code, name and id, and whose saved session exists,
\* comes to show the workshop screen with presence set up, without any
\* input of the user.
AutoRejoinRestores ==
    \A cl \in Clients :
        (part[cl].pc = "rejoining" /\ sessions[part[cl].code].exists)
            ~> (/\ part[cl].screen = "workshop"
                /\ part[cl].presenceCleanup.set
                /\ inputs = 0)

-----------------------------------------------------------------------------
(* SpecRecord: the recordings of one participant page on its workshop
   screen.  Every startRecording() makes its own SpeechRecognition (when
   the browser has one) and its own MediaRecorder; their handlers run some
   time after stopRecording(), so the handlers of an earlier recording can
   run after the next one has started.  A recording keeps what it heard
   (`final`: finalTranscript is not empty), the audio requests it sent to
   the Whisper proxy and the transcripts it saved. *)

\* The recordings a participant starts in one run.
MaxRecordings == 2

\* The phase the participant's page mirrors: sessionData.phase || 0.
MirroredPhase(cl) ==
    IF part[cl].sessionData.set THEN part[cl].sessionData.val.phase ELSE 0

\* One startRecording() whose getUserMedia was granted.  `phase` is the
\* phase the page mirrored when the recording started; the code keeps no
\* such value, it is recorded here to compare the saved transcripts with.
Recording(supported, phase) ==
    [speech |-> IF supported THEN "listening" ELSE "none", final |-> FALSE,
     media |-> "recording", sent |-> 0, saved |-> 0, phase |-> phase]

RecordOnly ==
    UNCHANGED <<valVars, debVars, database, sessions, participants, themes,
                lastCall, adapterCalls, inputs, nextId, fac, part, gen,
                subscriptions, startup, form, proxy, connection,
                localStorage, retry,
                dataTheme>>

\* The record button while nothing is recorded: startRecording().  Without
\* the microphone it shows its error and nothing is started.
StartRecording(cl, granted) ==
    LET r == recorder[cl]
    IN /\ ~r.isRecording
       /\ Len(r.recordings) < MaxRecordings
       /\ recorder' =
            IF granted
            THEN [recorder EXCEPT
                    ![cl].isRecording = TRUE,
                    ![cl].recordings = Append(@, Recording(r.supported,
                                                         MirroredPhase(cl))),
                    ![cl].toast = ""]
            ELSE [recorder EXCEPT
                    ![cl].toast = "Failed to start recording. Please check microphone permissions."]
       /\ UNCHANGED transcripts
       /\ RecordOnly

\* speechRecognition.onresult with a final result.
SpeechResult(cl, i) ==
    /\ recorder[cl].recordings[i].speech = "listening"
    /\ recorder' = [recorder EXCEPT ![cl].recordings[i].final = TRUE]
    /\ UNCHANGED transcripts
    /\ RecordOnly

\* The record button while recording: stopRecording() stops the speech
\* recognition and the MediaRecorder of the recording made last.
StopRecording(cl) ==
    LET r == recorder[cl]
        i == Len(r.recordings)
    IN /\ r.isRecording
       /\ recorder' =
            [recorder EXCEPT
                ![cl].isRecording = FALSE,
                ![cl].recordings[i].speech =
                    IF @ = "listening" THEN "stopping" ELSE @,
                ![cl].recordings[i].media =
                    IF @ = "recording" THEN "stopping" ELSE @]
       /\ UNCHANGED transcripts
       /\ RecordOnly

\* The controller's saveTranscript(transcript) for a text that is not
\* empty: nothing without sessionData; otherwise the adapter's
\* saveTranscript at table `sessionData.tableNumber || 1` and phase
\* `sessionData.phase || 0`.
saveTranscript(cl, accept) ==
    IF part[cl].sessionData.set /\ AwaitSet(accept) = "ok"
    THEN TranscriptsAfterSave(part[cl].sessionData.code, 1,
                              part[cl].sessionData.val.phase)
    ELSE transcripts

Saves(cl, accept) ==
    IF part[cl].sessionData.set /\ AwaitSet(accept) = "ok" THEN 1 ELSE 0

\* speechRecognition.onend, after stop() or when the browser ends the
\* recognition: the final transcript is saved when there is one.
SpeechEnd(cl, i, accept) ==
    LET rec == recorder[cl].recordings[i]
    IN /\ rec.speech \in {"listening", "stopping"}
       /\ transcripts' =
            IF rec.final THEN saveTranscript(cl, accept) ELSE transcripts
       /\ recorder' =
            [recorder EXCEPT
                ![cl].recordings[i].speech = "ended",
                ![cl].recordings[i].saved =
                    IF rec.final THEN @ + Saves(cl, accept) ELSE @]
       /\ RecordOnly

\* The MediaRecorder's 'stop' handler: sendToWhisper(audioBlob) up to its
\* fetch of the Whisper proxy.
MediaStopped(cl, i) ==
    /\ recorder[cl].recordings[i].media = "stopping"
    /\ recorder' = [recorder EXCEPT ![cl].recordings[i].media = "sending",
                                    ![cl].recordings[i].sent = @ + 1]
    /\ UNCHANGED transcripts
    /\ RecordOnly

\* The proxy's answer in sendToWhisper: a transcript in an ok answer is
\* saved; a failed request shows 'Failed to transcribe audio'.
WhisperAnswered(cl, i, ok, transcript, accept) ==
    /\ recorder[cl].recordings[i].media = "sending"
    /\ transcripts' =
        IF ok /\ transcript THEN saveTranscript(cl, accept) ELSE transcripts
    /\ recorder' =
        [recorder EXCEPT
            ![cl].recordings[i].media = "done",
            ![cl].recordings[i].saved =
                IF ok /\ transcript THEN @ + Saves(cl, accept) ELSE @,
            ![cl].toast = IF ok THEN @ ELSE "Failed to transcribe audio"]
    /\ RecordOnly

RecordNext ==
    \/ \E cl \in Clients, granted \in BOOLEAN : StartRecording(cl, granted)
    \/ \E cl \in Clients :
        \E i \in 1..Len(recorder[cl].recordings) : SpeechResult(cl, i)
    \/ \E cl \in Clients : StopRecording(cl)
    \/ \E cl \in Clients, accept \in BOOLEAN :
        \E i \in 1..Len(recorder[cl].recordings) : SpeechEnd(cl, i, accept)
    \/ \E cl \in Clients :
        \E i \in 1..Len(recorder[cl].recordings) : MediaStopped(cl, i)
    \/ \E cl \in Clients, ok, transcript, accept \in BOOLEAN :
        \E i \in 1..Len(recorder[cl].recordings) :
            WhisperAnswered(cl, i, ok, transcript, accept)

\* A participant on the workshop screen of a session that exists, with or
\* without its first session notification, in a browser with or without
\* SpeechRecognition.
RecordInit ==
    /\ ValIdle
    /\ DebIdle
    /\ \E code \in RoomCodes, f \in FacilitatorIds :
        /\ sessions = [c \in Codes |->
                        IF c = code THEN createSessionData(f) ELSE NoSession]
        /\ participants =
            [NoParticipants EXCEPT ![code][1] = participantData]
        /\ \E data \in {NoData, [set |-> TRUE, code |-> code,
                                 val |-> createSessionData(f)]} :
            part = [cl \in Clients |->
                        [PartLoaded EXCEPT !.screen = "workshop",
                                           !.participantId = 1,
                                           !.sessionData = data]]
    /\ transcripts = [c \in Codes |-> <<>>]
    /\ themes = [c \in Codes |-> [n \in Tables |-> NoThemes]]
    /\ database = "db"
    /\ lastCall = NoCall
    /\ adapterCalls = 0
    /\ gen = GenIdle
    /\ inputs = 0
    /\ nextId = 2
    /\ fac = FacLoaded
    /\ subscriptions = <<>>
    /\ startup = StartupIdle
    /\ form = FormIdle
    /\ proxy = ProxyIdle
    /\ connection = ConnectionIdle
    /\ localStorage = StorageLoaded
    /\ dataTheme = ThemeIdle
    /\ \E supported \in BOOLEAN :
        recorder = [cl \in Clients |->
                        [RecorderIdle[cl] EXCEPT !.supported = supported]]
    /\ retry = RetryIdle

SpecRecord == RecordInit /\ [][RecordNext]_vars

\* C24: Whisper is the fallback of the Web Speech API.  A recording sends
\* its audio to the Whisper proxy only when the browser has no speech
\* recognition or the recognition heard no final transcript, and it saves
\* at most one transcript record.
WhisperIsFallback ==
    \A cl \in Clients :
        \A i \in 1..Len(recorder[cl].recordings) :
            LET rec == recorder[cl].recordings[i]
            IN /\ rec.sent > 0 => (rec.speech = "none" \/ ~rec.final)
               /\ rec.saved <= 1

-----------------------------------------------------------------------------
(* SpecDarkMode: the two pages of Spec, each in its own browser, with the
   theme button of their navbars.  A browser prefers the dark or the light
   scheme; initTheme() of its page has run, so the page's data-theme is
   the theme set last and localStorage holds it. *)

\* The theme button: Utils.toggleTheme(), which ends in setTheme(newTheme).
ToggleTheme(b) ==
    /\ dataTheme' = setThemeAttribute(b, toggleTheme(b))
    /\ localStorage' = setTheme(localStorage, b, toggleTheme(b))
    /\ NoStoreChange
    /\ UNCHANGED <<valVars, debVars, database, transcripts, themes, lastCall,
                   adapterCalls, inputs, nextId, fac, part, gen,
                   subscriptions, startup, form, proxy, connection, recorder,
                   retry>>

DarkModeNext ==
    \/ Next
    \/ \E b \in Browsers : ToggleTheme(b)

DarkModeInit ==
    /\ ValIdle
    /\ DebIdle
    /\ StoreEmpty
    /\ database = "db"
    /\ lastCall = NoCall
    /\ adapterCalls = 0
    /\ gen = GenIdle
    /\ inputs = 0
    /\ nextId = 1
    /\ fac = FacLoaded
    /\ part = [cl \in Clients |-> PartLoaded]
    /\ subscriptions = <<>>
    /\ startup = StartupIdle
    /\ form = FormIdle
    /\ proxy = ProxyIdle
    /\ connection = ConnectionIdle
    /\ recorder = RecorderIdle
    /\ retry = RetryIdle
    /\ \E dark \in BOOLEAN :
        /\ dataTheme =
            [b \in Browsers |->
                [prefersDark |-> dark,
                 attr |-> IF dark THEN "dark" ELSE "light"]]
        /\ localStorage =
            [b \in Browsers |->
                [k \in StorageKeys |->
                    IF k = "theme" THEN IF dark THEN "dark" ELSE "light"
                    ELSE "null"]]

SpecDarkMode == DarkModeInit /\ [][DarkModeNext]_vars

\* C25: the theme preference is persistent: whatever the pages do, the
\* theme in a browser's localStorage is the theme set last there with
\* setTheme (the page's data-theme).
ThemePersists ==
    \A b \in Browsers : localStorage[b]["theme"] = dataTheme[b].attr

-----------------------------------------------------------------------------
(* SpecRetry: one call of Utils.retry(fn, maxAttempts, delay).  `log` is
   what each invocation of fn did, in order: it resolved with a value or
   it rejected with an error; the error of the k-th invocation is named
   after k.  `waits` holds the times given to setTimeout, in order. *)

\* CONFIG.APP.RECONNECT_DELAY, the default of `delay`
RECONNECT_DELAY == 2000

\* The largest maxAttempts of a call, and the delays of a call.
MaxAttempts == 4

Delays == {0, 1, RECONNECT_DELAY}

\* The values fn resolves with.
Values == {"a", "b"}

ErrorOf(attempt) == "error" \o ToString(attempt)

\* Without backoff: the same wait after every failed attempt.
waitTimeFixed(delay, attempt) == delay

\* const waitTime = delay * Math.pow(2, attempt - 1)
waitTime(delay, attempt) == delay * 2^(attempt - 1)

RetryOnly ==
    UNCHANGED <<valVars, debVars, storeVars, lastCall, adapterCalls, inputs,
                nextId, fac, part, gen, subscriptions, startup, form, proxy,
                connection, localStorage, dataTheme, recorder>>

\* Utils.retry(fn, maxAttempts, delay) is called: attempt = 1, and fn is
\* about to be invoked.
RetryCalled(maxAttempts, delay) ==
    /\ retry.pc = "idle"
    /\ retry' = [retry EXCEPT !.pc = "calling", !.maxAttempts = maxAttempts,
                              !.delay = delay, !.attempt = 1]
    /\ RetryOnly

\* `return await fn()` resolves: retry returns the value.
FnResolved(value) ==
    /\ retry.pc = "calling"
    /\ retry' = [retry EXCEPT !.pc = "returned", !.ret = value,
                              !.log = Append(@, value)]
    /\ RetryOnly

\* `await fn()` rejects: the error is rethrown after the last attempt;
\* otherwise the wait is set.
FnRejected ==
    /\ retry.pc = "calling"
    /\ retry' =
        IF retry.attempt = retry.maxAttempts
        THEN [retry EXCEPT !.pc = "thrown", !.ret = ErrorOf(retry.attempt),
                           !.log = Append(@, ErrorOf(retry.attempt))]
        ELSE [retry EXCEPT
                !.pc = "waiting",
                !.log = Append(@, ErrorOf(retry.attempt)),
                !.waits = Append(@, waitTime(retry.delay, retry.attempt))]
    /\ RetryOnly

\* The timer of the wait fires: the next attempt.
WaitOver ==
    /\ retry.pc = "waiting"
    /\ retry' = [retry EXCEPT !.pc = "calling", !.attempt = @ + 1]
    /\ RetryOnly

RetryNext ==
    \/ \E maxAttempts \in 1..MaxAttempts, delay \in Delays :
        RetryCalled(maxAttempts, delay)
    \/ \E value \in Values : FnResolved(value)
    \/ FnRejected
    \/ WaitOver

RetryInit == Init

SpecRetry == RetryInit /\ [][RetryNext]_vars

\* The invocations of fn so far that rejected.
Failed(n) == \A k \in 1..n : retry.log[k] = ErrorOf(k)

\* C26: Utils.retry with maxAttempts >= 1 invokes fn at most maxAttempts
\* times; it returns the value of the first invocation that resolves and
\* invokes fn no more; after the k-th failed attempt it waits
\* delay * 2^(k-1) before the next one; and when all maxAttempts attempts
\* have failed it throws the error of the last one with no wait after it.
RetryBacksOff ==
    LET n == Len(retry.log)
    IN /\ n <= retry.maxAttempts
       /\ \A k \in 1..Len(retry.waits) :
            retry.waits[k] = retry.delay * 2^(k - 1)
       /\ retry.pc = "calling" =>
            Failed(n) /\ Len(retry.waits) = n /\ retry.attempt = n + 1
       /\ retry.pc = "waiting" =>
            Failed(n) /\ Len(retry.waits) = n /\ n < retry.maxAttempts
       /\ retry.pc = "returned" =>
            /\ Failed(n - 1)
            /\ retry.log[n] \in Values
            /\ retry.ret = retry.log[n]
            /\ Len(retry.waits) = n - 1
       /\ retry.pc = "thrown" =>
            /\ Failed(n)
            /\ n = retry.maxAttempts
            /\ retry.ret = ErrorOf(retry.maxAttempts)
            /\ Len(retry.waits) = retry.maxAttempts - 1

\* retry returned the value of its third attempt, after two waits with a
\* delay that is not zero.
RetryThirdAttempt ==
    /\ retry.pc = "returned"
    /\ Len(retry.log) = 3
    /\ retry.delay > 0
    /\ retry.waits = <<retry.delay, 2 * retry.delay>>

-----------------------------------------------------------------------------
(* SpecMirrors: the pages of Spec over a store that holds a second session,
   XYZ789, created from another facilitator's page, which moves its phase
   forward.  A participant's handleJoinSubmit registers its session
   listener before it loads the video conference, and its catch block
   leaves the listener registered when the conference fails. *)

OtherCodes == Codes \ RoomCodes

\* handlePhaseChange on the other facilitator's page: updatePhase on its
\* own session, reported to every listener at that session.
OtherPhaseChange(code, newPhase) ==
    LET s2 == SessionsAfterPhase(code, newPhase)
        snaps == WriteReports("updatePhase", code, TRUE, s2, participants)
    IN /\ sessions[code].exists
       /\ newPhase > sessions[code].phase
       /\ StoreWrite("updatePhase", code, TRUE, s2, participants)
       /\ fac' = FacReported(code, snaps)
       /\ part' = PartReported(code, snaps)
       /\ UNCHANGED nextId
       /\ NoInput
       /\ FacOnly

MirrorsNext ==
    \/ Next
    \/ \E code \in OtherCodes, newPhase \in Phases :
        OtherPhaseChange(code, newPhase)

MirrorsInit ==
    /\ ValIdle
    /\ DebIdle
    /\ sessions = [c \in Codes |->
                    IF c \in OtherCodes THEN createSessionData("facilitator_2")
                    ELSE NoSession]
    /\ participants = [c \in Codes |-> [p \in Pids |-> NoParticipant]]
    /\ transcripts = [c \in Codes |-> <<>>]
    /\ themes = [c \in Codes |-> [n \in Tables |-> NoThemes]]
    /\ database = "db"
    /\ lastCall = NoCall
    /\ adapterCalls = 0
    /\ CtlIdle

SpecMirrors == MirrorsInit /\ [][MirrorsNext]_vars

\* Every notification reported to the page's session listeners is handled.
Delivered(p) ==
    /\ p.activeListeners # <<>>
    /\ \A i \in 1..Len(p.activeListeners) : p.activeListeners[i].queue = <<>>

\* The store's record of session c, as handleSessionUpdate mirrors it.
RecordOf(c) == [set |-> TRUE, code |-> c, val |-> sessions[c]]

\* C27 (as claimed): the local mirrors converge: once every notification
\* reported to a subscribed page has been handled, the page's sessionData
\* is the store's record of the page's session, for the facilitator and
\* for every participant in a workshop, and the facilitator's currentPhase
\* is the store's phase.
MirrorsConverge ==
    /\ \A c \in RoomCodes :
        (/\ fac.screen = "workshop"
         /\ ListenersAt(fac, c) # {}
         /\ Delivered(fac)) =>
            /\ fac.sessionData = RecordOf(c)
            /\ fac.currentPhase = sessions[c].phase
    /\ \A cl \in Clients :
        (/\ part[cl].screen = "workshop"
         /\ part[cl].presenceCleanup.set
         /\ Delivered(part[cl])) =>
            part[cl].sessionData = RecordOf(part[cl].presenceCleanup.code)

-----------------------------------------------------------------------------
\* The facilitator's timer and its end of the session, under Spec.  The
\* model takes every store write within the step of the handler that makes
\* it, so no state has a timer write in flight.

\* A countdown interval is active on the facilitator page.
CountsDown == fac.timerInterval

\* C28 (as claimed): the store's timer flag agrees with the facilitator's
\* countdown: after any sequence of startTimer, stopTimer, countdown ticks,
\* restarts and cleanup / end-session, the timerActive of the facilitator's
\* session is true exactly when an interval runs on the facilitator page.
TimerFlagAgrees ==
    \A c \in RoomCodes :
        sessions[c].exists => (sessions[c].timerActive <=> CountsDown)

\* C30 (as claimed): the facilitator shows 'Workshop ended' and tears its
\* session down (cleanup, localStorage cleared, reload) only if the store's
\* status of its session is ended, also when the end-session write fails
\* and when no notification has yet populated sessionData.
TornDownOnlyWhenEnded ==
    (/\ fac.pc = "reloading"
     /\ "Workshop ended" \in fac.notice.toasts) =>
        \A c \in RoomCodes : sessions[c].status = "ended"

-----------------------------------------------------------------------------
(* SpecCleanup: a client subscribes with listenToSession,
   listenToParticipants and listenToThemes and calls cleanup() at any
   moment, while the store takes writes of participants and of the themes
   of table 1. *)

ListenToThemes(code) ==
    /\ NotSubscribed("listenToThemes")
    /\ subscriptions' =
        Append(subscriptions,
               Subscribed("listenToThemes", code, {"value"},
                          <<ValueEvent(themes[code] # [n \in Tables |-> NoThemes])>>))
    /\ UNCHANGED <<storeVars, lastCall, adapterCalls>>
    /\ ListenOnly

CleanupNext ==
    \/ \E code \in RoomCodes : ListenToSession(code)
    \/ \E code \in RoomCodes : ListenToParticipants(code)
    \/ \E code \in RoomCodes : ListenToThemes(code)
    \/ Cleanup
    \/ \E i \in 1..Len(subscriptions) : Deliver(i)
    \/ \E code \in RoomCodes, pid \in Pids :
        CallJoinSession(code, pid, TRUE, TRUE) /\ ListenWritten
    \/ \E code \in RoomCodes, th \in ThemeLists :
        CallSaveThemes(code, 1, th, TRUE) /\ ListenWritten

SpecCleanup == ListenInit /\ [][CleanupNext]_vars

\* activeListeners.length = 0
ActiveListenersEmpty ==
    \A i \in 1..Len(subscriptions) : subscriptions[i].listed = {}

\* C29: FirebaseService.cleanup cancels every subscription: after cleanup
\* returns activeListeners is empty; no callback registered through
\* listenToSession, listenToParticipants or listenToThemes before it stays
\* registered or is run for any later change of the store; and calling
\* cleanup again changes nothing.
CleanupCancelsAll ==
    /\ [][Cleanup => ActiveListenersEmpty']_vars
    /\ [](\A i \in 1..Len(subscriptions) :
            subscriptions[i].listed = {} => subscriptions[i].registered = {})
    /\ [][\A i \in 1..Len(subscriptions) :
            subscriptions[i].listed = {} =>
                subscriptions'[i].calls = subscriptions[i].calls]_vars
    /\ [](cleanup(cleanup(subscriptions)) = cleanup(subscriptions))
    /\ [](ActiveListenersEmpty => cleanup(subscriptions) = subscriptions)

\* cleanup() ran over the three kinds of subscription, after the session
\* and the themes listeners had run their callbacks, and the store
\* reported later changes that reached none of the three.
CleanedUpMissedChange ==
    /\ ActiveListenersEmpty
    /\ \A op \in {"listenToSession", "listenToParticipants", "listenToThemes"} :
        \E i \in 1..Len(subscriptions) :
            /\ subscriptions[i].op = op
            /\ subscriptions[i].dropped > 0
            /\ op # "listenToParticipants" => subscriptions[i].calls > 0

-----------------------------------------------------------------------------
\* The participant's join and leave, under Spec.

\* handleJoinSubmit has ended in its catch block after the store join: the
\* one notification is 'Failed to join workshop. Please try again.'
JoinFailedAfterStore(cl) ==
    /\ part[cl].screen = "join"
    /\ part[cl].pc = "idle"
    /\ part[cl].participantId # 0
    /\ part[cl].toasts = {"Failed to join workshop. Please try again."}

\* C31 (as claimed): a failed join leaves no residue: when handleJoinSubmit
\* has ended in its failure path, the store holds no online record for the
\* id of that attempt and no session or presence listener of the attempt
\* remains; hence a participant on the workshop screen has at most one
\* session listener.
FailedJoinLeavesNothing ==
    \A cl \in Clients :
        /\ JoinFailedAfterStore(cl) =>
            /\ \A c \in Codes :
                participants[c][part[cl].participantId].status # "online"
            /\ part[cl].activeListeners = <<>>
            /\ ~part[cl].presenceCleanup.set
        /\ part[cl].screen = "workshop" =>
            Len(part[cl].activeListeners) <= 1

-----------------------------------------------------------------------------
(* SpecLeave: the pages of Spec from the moment the facilitator's workshop
   runs: the session is created, the facilitator page shows the workshop
   screen and has handled the first notification of its session listener.
   The users' inputs are counted from there. *)

LeaveInit ==
    /\ ValIdle
    /\ DebIdle
    /\ database = "db"
    /\ lastCall = NoCall
    /\ adapterCalls = 0
    /\ \E code \in RoomCodes, f \in FacilitatorIds :
        /\ sessions = [c \in Codes |->
                        IF c = code THEN createSessionData(f) ELSE NoSession]
        /\ fac = [FacLoaded EXCEPT
                    !.screen = "workshop",
                    !.sessionData = [set |-> TRUE, code |-> code,
                                     val |-> createSessionData(f)],
                    !.activeListeners =
                        Notified(listenToSession(<<>>, code,
                                                 createSessionData(f)), 1),
                    !.notice = Notice("true", {})]
        /\ localStorage =
            setItem(setItem(setItem(StorageLoaded,
                "facilitator", "facilitator_code", code),
                "facilitator", "facilitator_id", f),
                "facilitator", "facilitator_name", FacilitatorName)
    /\ participants = [c \in Codes |-> [p \in Pids |-> NoParticipant]]
    /\ transcripts = [c \in Codes |-> <<>>]
    /\ themes = [c \in Codes |-> [n \in Tables |-> NoThemes]]
    /\ connection = ConnectionIdle
    /\ dataTheme = ThemeIdle
    /\ recorder = RecorderIdle
    /\ retry = RetryIdle
    /\ inputs = 0
    /\ nextId = 1
    /\ part = [cl \in Clients |-> PartLoaded]
    /\ gen = GenIdle
    /\ subscriptions = <<>>
    /\ startup = StartupIdle
    /\ form = FormIdle
    /\ proxy = ProxyIdle

SpecLeave == LeaveInit /\ [][Next]_vars

\* The participant has left: handleLeave was confirmed and no join followed.
HasLeft(cl) ==
    /\ connection[cl].left # {}
    /\ connection[cl].joined = {}
    /\ part[cl].screen = "join"
    /\ part[cl].pc = "idle"

\* C32 (as claimed): for one ended session the participant's leave handler
\* runs at most once: however many notifications with status ended are
\* delivered, one handleLeave is scheduled, and none is pending once the
\* participant has left.
LeaveScheduledOnce ==
    \A cl \in Clients :
        /\ part[cl].leaveTimers <= 1
        /\ HasLeft(cl) => part[cl].leaveTimers = 0

-----------------------------------------------------------------------------
\* The themes a run of handleGenerateThemes stores, under SpecThemes.

\* C33 (as claimed): the themes a run stores for a table are the themes the
\* completion proxy returned for it: a write that changes a table's
\* ThemeResult is made only after the proxy answered 200 with a themes
\* array T, and the themes written are T.
StoredThemesAreProxyThemes ==
    [][\A c \in Codes, n \in Tables :
        themes'[c][n] # themes[c][n] =>
            /\ gen.answer \in ThemeLists
            /\ themes'[c][n].themes = gen.answer]_vars


\* C34 (as claimed): handleGenerateThemes shows 'Themes generated
\* successfully!' only if, for every table with transcripts in the phase,
\* the completion call succeeded and the store accepted the theme write.
SuccessMeansAllStored ==
    (gen.toast = "Themes generated successfully!" /\ gen.found # <<>>) =>
        ~gen.failed

-----------------------------------------------------------------------------
(* SpecGenerate: clicks on the generate-themes button of a running
   workshop.  The button's listener is Utils.debounce(handleGenerateThemes,
   2000, true); debounce takes two parameters, so the third is ignored.  A
   run of handleGenerateThemes is open from its start to the settling of
   its last completion call or theme write; gen.open counts the open runs.
   Time moves in halves of the debounce wait. *)

\* The wait of the button's debounce, in ms.
GENERATE_DEBOUNCE_WAIT == 2000

GenerateOnly ==
    UNCHANGED <<valVars, setCalls, storeVars, lastCall, adapterCalls, inputs,
                nextId, fac, part, subscriptions, startup, form, proxy,
                pageVars>>

\* A click: executedFunction clears the pending timer and sets a new one.
GenerateClicked ==
    /\ Len(calls) < MaxCalls
    /\ LET id == Len(calls) + 1
       IN /\ timers' = setTimeout(clearTimeout(timers, timeout), id,
                                  GENERATE_DEBOUNCE_WAIT, "click")
          /\ timeout' = id
    /\ calls' = Append(calls, [t |-> now, args |-> "click"])
    /\ UNCHANGED <<now, gen>>
    /\ GenerateOnly

\* later(): clearTimeout(timeout), then handleGenerateThemes, which returns
\* at once without sessionData and otherwise runs up to its first await.
GenerateLater(t) ==
    /\ t.deadline <= now
    /\ timers' = clearTimeout(timers \ {t}, timeout)
    /\ gen' = IF fac.sessionData.set
              THEN [gen EXCEPT !.runs = @ + 1, !.open = @ + 1]
              ELSE gen
    /\ UNCHANGED <<now, timeout, calls>>
    /\ GenerateOnly

\* The last await of an open run settles: the run ends with its
\* notification.
GenerateSettled ==
    /\ gen.open > 0
    /\ gen' = [gen EXCEPT !.open = @ - 1]
    /\ UNCHANGED <<now, timers, timeout, calls>>
    /\ GenerateOnly

\* Time passes, up to the next timer that is due.
GenerateElapse ==
    /\ now < MaxCalls * GENERATE_DEBOUNCE_WAIT
    /\ \A t \in timers : t.deadline > now
    /\ now' = now + GENERATE_DEBOUNCE_WAIT \div 2
    /\ UNCHANGED <<timers, timeout, calls, gen>>
    /\ GenerateOnly

GenerateNext ==
    \/ GenerateClicked
    \/ \E t \in timers : GenerateLater(t)
    \/ GenerateSettled
    \/ GenerateElapse

SpecGenerate == LeaveInit /\ [][GenerateNext]_vars

\* C35 (as claimed): theme-generation runs never overlap on one
\* facilitator: for any sequence of clicks on the button, no run starts
\* while an earlier run has completion calls or theme writes outstanding.
RunsNeverOverlap == gen.open <= 1

(* SpecToggle: the record button of one participant page, with the wait of
   startRecording() for the microphone as a step of its own.
   toggleRecording() reads isRecording when the button is pressed;
   startRecording() sets it only after getUserMedia has settled, so every
   press during the wait is one more startRecording().  `waiting` counts
   the startRecording() calls whose getUserMedia has not settled; the
   module's mediaRecorder and speechRecognition are those of the recording
   made last. *)

\* toggleRecording(): stopRecording() while isRecording, otherwise
\* startRecording() up to its await of getUserMedia.
ToggleRecording(cl) ==
    LET r == recorder[cl]
    IN IF r.isRecording
       THEN StopRecording(cl)
       ELSE /\ Len(r.recordings) + r.waiting < MaxRecordings
            /\ recorder' = [recorder EXCEPT ![cl].waiting = @ + 1]
            /\ UNCHANGED transcripts
            /\ RecordOnly

\* getUserMedia settles for one waiting startRecording(): with the stream it
\* makes and starts its MediaRecorder and sets isRecording; without it the
\* catch block shows the error.
MicrophoneSettled(cl, granted) ==
    LET r == recorder[cl]
    IN /\ r.waiting > 0
       /\ recorder' =
            IF granted
            THEN [recorder EXCEPT
                    ![cl].waiting = @ - 1,
                    ![cl].isRecording = TRUE,
                    ![cl].recordings = Append(@, Recording(r.supported,
                                                         MirroredPhase(cl))),
                    ![cl].toast = ""]
            ELSE [recorder EXCEPT
                    ![cl].waiting = @ - 1,
                    ![cl].toast = "Failed to start recording. Please check microphone permissions."]
       /\ UNCHANGED transcripts
       /\ RecordOnly

ToggleNext ==
    \/ \E cl \in Clients : ToggleRecording(cl)
    \/ \E cl \in Clients, granted \in BOOLEAN : MicrophoneSettled(cl, granted)
    \/ \E cl \in Clients :
        \E i \in 1..Len(recorder[cl].recordings) : SpeechResult(cl, i)
    \/ \E cl \in Clients, accept \in BOOLEAN :
        \E i \in 1..Len(recorder[cl].recordings) : SpeechEnd(cl, i, accept)
    \/ \E cl \in Clients :
        \E i \in 1..Len(recorder[cl].recordings) : MediaStopped(cl, i)
    \/ \E cl \in Clients, ok, transcript, accept \in BOOLEAN :
        \E i \in 1..Len(recorder[cl].recordings) :
            WhisperAnswered(cl, i, ok, transcript, accept)

SpecToggle == RecordInit /\ [][ToggleNext]_vars

\* The MediaRecorders of participant cl that were started and not stopped.
StartedRecorders(cl) ==
    {i \in 1..Len(recorder[cl].recordings) :
        recorder[cl].recordings[i].media = "recording"}

\* C36: a participant never has more than one started media recorder,
\* whatever the order of the presses of the record button and of the
\* microphone's answers.
OneStartedRecorder ==
    \A cl \in Clients : Cardinality(StartedRecorders(cl)) <= 1

(* SpecPhase: one participant records on its workshop screen while the
   facilitator of its session moves the workshop to the next phase.  The
   participant's session listener is registered and has delivered its
   first notification. *)

PhaseInit ==
    /\ ValIdle
    /\ DebIdle
    /\ \E code \in RoomCodes, f \in FacilitatorIds :
        /\ sessions = [c \in Codes |->
                        IF c = code THEN createSessionData(f) ELSE NoSession]
        /\ participants =
            [NoParticipants EXCEPT ![code][1] = participantData]
        /\ part = [cl \in Clients |->
                    [PartLoaded EXCEPT
                        !.screen = "workshop",
                        !.participantId = 1,
                        !.sessionData = [set |-> TRUE, code |-> code,
                                         val |-> createSessionData(f)],
                        !.activeListeners =
                            Notified(listenToSession(<<>>, code,
                                                     createSessionData(f)),
                                     1)]]
    /\ transcripts = [c \in Codes |-> <<>>]
    /\ themes = [c \in Codes |-> [n \in Tables |-> NoThemes]]
    /\ database = "db"
    /\ lastCall = NoCall
    /\ adapterCalls = 0
    /\ gen = GenIdle
    /\ inputs = 0
    /\ nextId = 2
    /\ fac = FacLoaded
    /\ subscriptions = <<>>
    /\ startup = StartupIdle
    /\ form = FormIdle
    /\ proxy = ProxyIdle
    /\ connection = ConnectionIdle
    /\ localStorage = StorageLoaded
    /\ dataTheme = ThemeIdle
    /\ \E supported \in BOOLEAN :
        recorder = [cl \in Clients |->
                        [RecorderIdle[cl] EXCEPT !.supported = supported]]
    /\ retry = RetryIdle

PhaseNext ==
    \/ RecordNext
    \/ \E code \in RoomCodes, newPhase \in Phases :
        OtherPhaseChange(code, newPhase)
    \/ \E cl \in Clients :
        \E i \in 1..Len(part[cl].activeListeners) : PartSessionUpdate(cl, i)

SpecPhase == PhaseInit /\ [][PhaseNext]_vars

\* The transcript saved last in the session participant cl has joined.
LastTranscript(cl) ==
    LET saved == transcripts[part[cl].sessionData.code]
    IN saved[Len(saved)]

\* C37: every transcript that is saved for a recording carries the phase
\* the participant's page mirrored when that recording started.
TranscriptKeepsPhase ==
    [][\A cl \in Clients :
        \A i \in 1..Len(recorder[cl].recordings) :
            (recorder[cl].recordings[i].saved
                < recorder'[cl].recordings[i].saved)
            => (LastTranscript(cl)'.phaseIndex
                    = recorder[cl].recordings[i].phase)]_vars

(* SpecInit: FirebaseService.init called again and again, as a page's
   init() or any later caller does.  firebaseApp is assigned before the
   connection is tested, and a call that finds firebaseApp set returns true
   at once. *)

\* The calls of FirebaseService.init in one run.
MaxInits == 4

\* One more call of FirebaseService.init(): a page that called it before
\* calls it again.
InitAgain(pg, connected) ==
    /\ startup.ret[pg] # "none"
    /\ startup.inits < MaxInits
    /\ startup' =
        [startup EXCEPT
            !.ret[pg] = FirebaseInitRet(startup.config, connected),
            !.error[pg] =
                @ \/ FirebaseInitRet(startup.config, connected) = "false",
            !.inits = @ + 1,
            !.tested = @ \/ ConnectionTested(startup.config, connected)]
    /\ database' =
        IF database = "null" /\ ~hasPlaceholders(startup.config)
        THEN "db" ELSE database
    /\ UNCHANGED <<valVars, debVars, sessions, participants, transcripts,
                   themes, lastCall, adapterCalls, inputs, nextId, fac, part,
                   gen, subscriptions, form, proxy, pageVars>>

\* The page whose calls are followed: every page has its own firebaseApp.
InitPage == "facilitator"

InitNext ==
    \/ \E connected \in BOOLEAN : PageInit(InitPage, connected)
    \/ \E connected \in BOOLEAN : InitAgain(InitPage, connected)

SpecInit == StartupInit /\ [][InitNext]_vars

\* C38: FirebaseService.init has returned true only if a connection test
\* has succeeded, in that call or in an earlier one.
InitTrueOnlyTested ==
    startup.ret[InitPage] = "true" => startup.tested

(* SpecJoinEnded: the adapter's operations, before or after
   FirebaseService.init on the calling page, on a store that holds a
   session a facilitator created. *)

JoinEndedInit ==
    /\ ValIdle
    /\ DebIdle
    /\ \E code \in RoomCodes, f \in FacilitatorIds :
        sessions = [c \in Codes |->
                        IF c = code THEN createSessionData(f) ELSE NoSession]
    /\ participants = [c \in Codes |-> [p \in Pids |-> NoParticipant]]
    /\ transcripts = [c \in Codes |-> <<>>]
    /\ themes = [c \in Codes |-> [n \in Tables |-> NoThemes]]
    /\ database \in {"null", "db"}
    /\ lastCall = NoCall
    /\ adapterCalls = 0
    /\ CtlIdle

SpecJoinEnded == JoinEndedInit /\ [][AdapterNext]_vars

\* C39: joinSession for a code whose session has status 'ended' returns
\* false and writes no participant record.
EndedSessionRefusesJoin ==
    (/\ lastCall.op = "joinSession"
     /\ sessions[lastCall.code].status = "ended")
    => (lastCall.ret = "false" /\ ~lastCall.wrote)

(* SpecRoster: the facilitator's `participants` object, filled by
   handleParticipantAdded and handleParticipantRemoved from the
   child_added and child_removed notifications of listenToParticipants,
   while participants join and their status is written.  A notification
   carries snapshot.val(), the participant's record as it is when the
   store reports it.  No operation of the program removes a participant's
   record. *)

\* The writes below sessions/{code}/participants in one run.
MaxRosterWrites == 3

RosterEvent(event, pid, val) ==
    [event |-> event, exists |-> TRUE, pid |-> pid, val |-> val]

\* child_added / child_removed for a change of the participants from p1 to
\* p2, over the ids 1..n: a changed record of a participant that stays is
\* a child_changed, which has no listener.
RECURSIVE RosterEvents(_, _, _, _)
RosterEvents(code, p1, p2, n) ==
    IF n = 0 THEN <<>>
    ELSE RosterEvents(code, p1, p2, n - 1) \o
         (IF ~p1[code][n].exists /\ p2[code][n].exists
          THEN <<RosterEvent("child_added", n, p2[code][n])>>
          ELSE IF p1[code][n].exists /\ ~p2[code][n].exists
               THEN <<RosterEvent("child_removed", n, p1[code][n])>>
               ELSE <<>>)

RosterOnly == UNCHANGED <<valVars, debVars, inputs, nextId, part, gen,
                startup, form, proxy, pageVars>>

\* setupWorkshop: listenToParticipants(code, handleParticipantAdded,
\* handleParticipantRemoved).
ListenToRoster(code) ==
    /\ NotSubscribed("listenToParticipants")
    /\ subscriptions' =
        Append(subscriptions,
               Subscribed("listenToParticipants", code,
                          {"child_added", "child_removed"},
                          RosterEvents(code, NoParticipants, participants,
                                       MaxIds)))
    /\ UNCHANGED <<storeVars, lastCall, adapterCalls, fac>>
    /\ RosterOnly

\* A write below the participants, reported to the subscriptions.
RosterWritten ==
    /\ adapterCalls < MaxRosterWrites
    /\ adapterCalls' = adapterCalls + 1
    /\ subscriptions' =
        [i \in 1..Len(subscriptions) |->
            [subscriptions[i] EXCEPT
                !.queue = @ \o RosterEvents(subscriptions[i].code,
                                            participants, participants',
                                            MaxIds)]]
    /\ UNCHANGED fac
    /\ RosterOnly

\* A participant's status is written: by the debounced
\* updateParticipantStatus, by setupPresence on (re)connection, by its
\* onDisconnect or by presenceCleanup.
StatusWritten(code, pid, status) ==
    /\ participants[code][pid].exists
    /\ participants' = ParticipantsAfterStatus(code, pid, status)
    /\ UNCHANGED <<database, sessions, transcripts, themes, lastCall>>
    /\ RosterWritten

\* handleParticipantAdded / handleParticipantRemoved for the next
\* notification of the i-th subscription.
RosterDeliver(i) ==
    LET e == Head(subscriptions[i].queue)
    IN /\ subscriptions[i].queue # <<>>
       /\ fac' = [fac EXCEPT
                    !.participants[e.pid] =
                        IF e.event = "child_added" THEN e.val
                        ELSE NoParticipant]
       /\ subscriptions' =
            [subscriptions EXCEPT ![i].queue = Tail(@),
                                  ![i].calls = @ + 1]
       /\ UNCHANGED <<storeVars, lastCall, adapterCalls>>
       /\ RosterOnly

RosterNext ==
    \/ \E code \in RoomCodes : ListenToRoster(code)
    \/ \E code \in RoomCodes, pid \in Pids, accept \in BOOLEAN :
        CallJoinSession(code, pid, TRUE, accept) /\ RosterWritten
    \/ \E code \in RoomCodes, pid \in Pids, status \in {"online", "offline"} :
        StatusWritten(code, pid, status)
    \/ \E i \in 1..Len(subscriptions) : RosterDeliver(i)

SpecRoster == ListenInit /\ [][RosterNext]_vars

\* C40: once every pending participant notification has been delivered,
\* the facilitator's participants are the participant records of the
\* session in the store, each with the status the store holds for it.
RosterTracksStore ==
    \A i \in 1..Len(subscriptions) :
        subscriptions[i].queue = <<>>
        => fac.participants = participants[subscriptions[i].code]

=============================================================================
